---- MODULE Spec2Model ----
(***************************************************************************)
(* The transactional ledger of the point-of-sale backend (src/app.py on    *)
(* top of src/database.py): sales, voids, purchase-order receiving, the    *)
(* unit of work around each request, and the two database backends.        *)
(*                                                                         *)
(* Tables are modelled as sequences of rows in insertion order (the row id *)
(* of an AUTOINCREMENT / SERIAL table is the row's index), the inventory   *)
(* table as a function from SKU to quantity-on-hand.  A handler is an      *)
(* operator from a database value and a request to the database value its  *)
(* statements produce; the unit of work commits it or discards it.         *)
(***************************************************************************)
EXTENDS Integers, Sequences, FiniteSets, TLC

\* ------------------------------------------------------------------ bounds
MaxSales == 2        \* sales created in one behaviour
MaxLines == 2        \* lines of one sale request, lines of one receive batch
MaxItems == 2        \* rows the sale_items table holds in one behaviour
MaxQty   == 2        \* largest line quantity a caller supplies
InitQty  == 1        \* quantity-on-hand of each product at the start
MaxOrders == 1       \* purchase orders created in one behaviour
MaxEdits == 1        \* product edits in one behaviour
MaxFaultAt == 3      \* statements a handler runs before its fault
MaxItemRows == 3     \* purchase_order_items rowids issued
MaxProducts == 2     \* products of the exporting database
MaxRuns == 2         \* process starts in one behaviour
MaxConns == 4        \* connections opened in one behaviour
MaxClock == 5        \* the latest time at which an order is edited
MaxRows == 2         \* rows inserted into one table through the cursor
MaxAdded == 1        \* products added through the API in one behaviour
MaxSold == 1         \* sale lines rung up between two process starts

\* ------------------------------------------------------------ input domains
Products   == {"A", "B"}          \* SKUs present in the inventory table
UnknownSku == "X"                 \* a SKU no inventory row has
NoSku      == ""                  \* a line without SKU (falsy in the handlers)
LineSkus   == Products \cup {UnknownSku, NoSku}
LineQtys   == {-1} \cup 1..MaxQty   \* callers may send negative quantities
Lines      == [sku : LineSkus, quantity : LineQtys]
SeqsUpTo(S, n) == UNION {[1..k -> S] : k \in 1..n}
SaleItems  == SeqsUpTo(Lines, MaxLines)

\* session users (session["user"]: name and role)
Users   == {[name |-> "alice", role |-> "admin"],
            [name |-> "bob",   role |-> "manager"],
            [name |-> "carl",  role |-> "staff"]}
Reasons == {"", "damaged"}
Backends == {"sqlite", "postgres"}

\* the customer identity a sale request may carry
NoCustomer == [phone |-> "", name |-> "", email |-> ""]
SaleCustomers == {NoCustomer, [phone |-> "555", name |-> "Ann", email |-> ""]}

VARIABLES
  backend,               \* USE_POSTGRES: which engine the process runs on
  inventory,             \* inventory table: sku -> quantity
  sales,                 \* sales table
  sale_items,            \* sale_items table
  inventory_log,         \* inventory_log table
  customers,             \* customers table
  purchase_orders,       \* purchase_orders table
  purchase_order_items,  \* purchase_order_items table
  purchases,             \* purchases table
  clock,                 \* datetime.now(), advanced by every unit of work that wrote
  mig,                   \* data migration: the exporting database, the snapshot, the importing database
  boot,                  \* process start: the database init_db finds and what its migration leaves
  pool,                  \* connection management: each thread's _local.conn and the connections opened
  conc,                  \* the two request workers serving create_sale side by side
  cur,                   \* the connection's inserts: rows per table and the last cursor returned
  last                   \* the last request handled and its response

tables == <<inventory, sales, sale_items, inventory_log, customers,
            purchase_orders, purchase_order_items, purchases>>
vars == <<backend, conc, mig, boot, pool, cur, inventory, sales, sale_items, inventory_log, customers,
          purchase_orders, purchase_order_items, purchases, clock, last>>

\* the committed database, as one value
DB == [inventory |-> inventory, sales |-> sales, sale_items |-> sale_items,
       inventory_log |-> inventory_log, customers |-> customers,
       purchase_orders |-> purchase_orders,
       purchase_order_items |-> purchase_order_items, purchases |-> purchases]

\* ------------------------------------------------------------ transactions
\* A connection's transaction: the working copy its statements have produced,
\* the number of statements that may still run before an unexpected error is
\* raised, and whether that error was raised.
NoFault == 4 * MaxLines + 8      \* more statements than any handler executes

Begin(d, be, fuel) ==
  [db |-> d, base |-> d, be |-> be, fuel |-> fuel, faulted |-> FALSE, log_raised |-> FALSE]

\* conn.rollback(): the working copy is the committed database again
rollback(committed, working) == committed

\* conn.execute of one write statement whose effect on the working copy is d2.
\* A statement that fails raises; the PostgreSQL wrapper first rolls the whole
\* transaction back, sqlite3 leaves the earlier statements pending.
\* log_raised notes that the statement that raised was an INSERT INTO inventory_log.
Exec(tx, d2) ==
  IF tx.faulted THEN tx
  ELSE IF tx.fuel = 0
    THEN [tx EXCEPT !.faulted = TRUE,
                    !.log_raised = Len(d2.inventory_log) > Len(tx.db.inventory_log),
                    !.db = IF tx.be = "postgres" THEN rollback(tx.base, tx.db) ELSE tx.db]
  ELSE [tx EXCEPT !.db = d2, !.fuel = tx.fuel - 1]

\* SQLite's two-argument MAX / PostgreSQL's GREATEST
ScalarMax(a, b) == IF a >= b THEN a ELSE b

\* What a handler hands back: the response code, the error details, the
\* transaction it leaves behind and whether it reached conn.commit().
\* A handler that returns early has written nothing and does not commit.
Refuse(tx, code, details) ==
  [code |-> code, details |-> details, tx |-> tx, committed |-> FALSE]

\* conn.commit() and the success response, unless a statement raised on the
\* way: the exception leaves the handler before the commit and the answer is 500
Done(tx, code) ==
  IF tx.faulted THEN [code |-> 500, details |-> <<>>, tx |-> tx, committed |-> FALSE]
  ELSE [code |-> code, details |-> <<>>, tx |-> tx, committed |-> TRUE]

\* ------------------------------------------------------------ create_sale
\* a stock check that looks at the first line only
stock_errors_first_line(d, items, i) ==
  IF i > Len(items) \/ i > 1 THEN <<>>
  ELSE IF items[i].sku # NoSku /\ items[i].sku \notin DOMAIN d.inventory
    THEN << [kind |-> "not_found", sku |-> items[i].sku,
             available |-> 0, requested |-> items[i].quantity] >>
  ELSE IF items[i].sku # NoSku /\ d.inventory[items[i].sku] < items[i].quantity
    THEN << [kind |-> "short", sku |-> items[i].sku,
             available |-> d.inventory[items[i].sku],
             requested |-> items[i].quantity] >>
  ELSE <<>>

RECURSIVE stock_errors(_, _, _)
stock_errors(d, items, i) ==
  IF i > Len(items) THEN <<>>
  ELSE LET sku == items[i].sku
           qty == items[i].quantity
           here ==
             IF sku = NoSku THEN <<>>
             ELSE IF sku \notin DOMAIN d.inventory
               THEN << [kind |-> "not_found", sku |-> sku,
                        available |-> 0, requested |-> qty] >>
             ELSE IF d.inventory[sku] < qty
               THEN << [kind |-> "short", sku |-> sku,
                        available |-> d.inventory[sku], requested |-> qty] >>
             ELSE <<>>
       IN here \o stock_errors(d, items, i + 1)

\* a sale row written with a status other than the column default
InsertSaleHeld(d, receipt, cust) ==
  [d EXCEPT !.sales = Append(@,
     [id |-> Len(d.sales) + 1, receipt_number |-> receipt, status |-> "Held",
      voided_at |-> 0, voided_by |-> "", void_reason |-> "",
      customer_name |-> cust.name, customer_phone |-> cust.phone,
      customer_email |-> cust.email])]

InsertSale(d, receipt, cust) ==
  [d EXCEPT !.sales = Append(@,
     [id |-> Len(d.sales) + 1, receipt_number |-> receipt, status |-> "Complete",
      voided_at |-> 0, voided_by |-> "", void_reason |-> "",
      customer_name |-> cust.name, customer_phone |-> cust.phone,
      customer_email |-> cust.email])]

InsertSaleItem(d, sale_id, line) ==
  [d EXCEPT !.sale_items = Append(@,
     [sale_id |-> sale_id, sku |-> line.sku, quantity |-> line.quantity])]

\* UPDATE inventory SET quantity = MAX(0, quantity - ?) WHERE sku = ?
DecrementStock(d, sku, qty) ==
  IF sku \in DOMAIN d.inventory
  THEN [d EXCEPT !.inventory[sku] = ScalarMax(0, @ - qty)]
  ELSE d

InsertLog(d, sku, action, qty_change, ref, note) ==
  [d EXCEPT !.inventory_log = Append(@,
     [sku |-> sku, action |-> action, qty_change |-> qty_change,
      new_value |-> ref, note |-> note])]

RECURSIVE sale_lines(_, _, _, _, _)
sale_lines(tx, items, i, sale_id, receipt) ==
  IF i > Len(items) THEN tx
  ELSE LET line == items[i]
           t1 == Exec(tx, InsertSaleItem(tx.db, sale_id, line))
           t2 == IF line.sku = NoSku THEN t1
                 ELSE Exec(t1, DecrementStock(t1.db, line.sku, line.quantity))
           t3 == IF line.sku = NoSku THEN t2
                 ELSE Exec(t2, InsertLog(t2.db, line.sku, "Sale", 0 - line.quantity,
                                         receipt, ""))
       IN sale_lines(t3, items, i + 1, sale_id, receipt)

CustomerIndex(d, phone) == {k \in 1..Len(d.customers) : d.customers[k].phone = phone}

\* str.strip() on the texts a request of this model can carry
strip(text) ==
  CASE text = " 555 " -> "555"
    [] text = "Acme " -> "Acme"
    [] text = " " -> ""
    [] OTHER -> text

\* an UPDATE that sets the name and email whatever the row holds
upsert_customer_overwrite(tx, cust) ==
  IF strip(cust.phone) = "" THEN tx
  ELSE IF CustomerIndex(tx.db, strip(cust.phone)) # {}
    THEN Exec(tx, [tx.db EXCEPT !.customers =
           [k \in 1..Len(@) |->
              IF @[k].phone = strip(cust.phone)
              THEN [@[k] EXCEPT !.name = strip(cust.name), !.email = strip(cust.email)]
              ELSE @[k]]])
    ELSE Exec(tx, [tx.db EXCEPT !.customers = Append(@,
           [id |-> Len(tx.db.customers) + 1, phone |-> strip(cust.phone),
            name |-> strip(cust.name), email |-> strip(cust.email)])])

upsert_customer(tx, cust) ==
  IF strip(cust.phone) = "" THEN tx
  ELSE IF CustomerIndex(tx.db, strip(cust.phone)) # {}
    THEN Exec(tx, [tx.db EXCEPT !.customers =
           [k \in 1..Len(@) |->
              IF @[k].phone = strip(cust.phone)
              THEN [@[k] EXCEPT !.name  = IF @ = "" THEN strip(cust.name) ELSE @,
                                !.email = IF @ = "" THEN strip(cust.email) ELSE @]
              ELSE @[k]]])
    ELSE Exec(tx, [tx.db EXCEPT !.customers = Append(@,
           [id |-> Len(tx.db.customers) + 1, phone |-> strip(cust.phone),
            name |-> strip(cust.name), email |-> strip(cust.email)])])

\* the statements of the handler after the stock check, up to conn.commit()
create_sale_writes(d, be, items, cust, fuel) ==
  LET receipt == Len(d.sales) + 1
      sale_id == Len(d.sales) + 1
      t0 == Begin(d, be, fuel)
  IN Done(upsert_customer(sale_lines(Exec(t0, InsertSale(d, receipt, cust)),
                                     items, 1, sale_id, receipt),
                          cust),
          201)

\* the handler
create_sale(d, be, items, cust, fuel) ==
  LET errs == stock_errors(d, items, 1)
  IN IF errs # <<>>
       THEN Refuse(Begin(d, be, fuel), 400, errs)
     ELSE create_sale_writes(d, be, items, cust, fuel)

\* ------------------------------------------------------------ void_sale
SaleByReceipt(d, receipt) == {k \in 1..Len(d.sales) : d.sales[k].receipt_number = receipt}

ItemsOfSale(d, sale_id) ==
  SelectSeq(d.sale_items, LAMBDA it : it.sale_id = sale_id)

\* an add-back with a ceiling at the quantity the sale line names
RestoreStockCeiling(d, sku, qty) ==
  IF sku \in DOMAIN d.inventory
  THEN [d EXCEPT !.inventory[sku] = ScalarMax(@, qty)]
  ELSE d

\* UPDATE inventory SET quantity = quantity + ? WHERE sku = ?
RestoreStock(d, sku, qty) ==
  IF sku \in DOMAIN d.inventory
  THEN [d EXCEPT !.inventory[sku] = @ + qty]
  ELSE d

RECURSIVE void_lines(_, _, _, _, _)
void_lines(tx, items, i, receipt, reason) ==
  IF i > Len(items) THEN tx
  ELSE LET item == items[i]
           t1 == IF item.sku = NoSku THEN tx
                 ELSE Exec(tx, RestoreStock(tx.db, item.sku, item.quantity))
           t2 == IF item.sku = NoSku THEN t1
                 ELSE Exec(t1, InsertLog(t1.db, item.sku, "Void Refund", item.quantity,
                                         receipt, IF reason = "" THEN "N/A" ELSE reason))
       IN void_lines(t2, items, i + 1, receipt, reason)

\* a void that also removes the sale's item rows
MarkVoidedPurged(d, sale_id, now, voided_by, reason) ==
  [d EXCEPT !.sales[sale_id] =
       [@ EXCEPT !.status = "Voided", !.voided_at = now,
                 !.voided_by = voided_by, !.void_reason = reason],
            !.sale_items = SelectSeq(@, LAMBDA it : it.sale_id # sale_id)]

MarkVoided(d, sale_id, now, voided_by, reason) ==
  [d EXCEPT !.sales[sale_id] =
     [@ EXCEPT !.status = "Voided", !.voided_at = now,
               !.voided_by = voided_by, !.void_reason = reason]]

\* UPDATE sales SET status = 'Voided', ... executed after the item loop
sale_voided(tx, sale_id, now, voided_by, reason) ==
  Exec(tx, MarkVoided(tx.db, sale_id, now, voided_by, reason))

\* a check that lets a voided sale through
already_voided_never(sale) == FALSE

\* sale.get("status") == "Voided"
already_voided(sale) == sale.status = "Voided"

\* a role test that lets every caller void
may_void_anyone(user_role) == TRUE

\* user_role in ("admin", "manager")
may_void(user_role) == user_role \in {"admin", "manager"}

\* void_sale from its first UPDATE to its commit, on the item rows the
\* handler has read
void_sale_writes(d, be, user, sale_id, items, receipt, reason, now, fuel) ==
  Done(sale_voided(void_lines(Begin(d, be, fuel), items, 1, receipt, reason),
                   sale_id, now, user.name, reason),
       200)

\* the answer void_sale gives from its SELECTs alone; 0 when it goes on to write
void_sale_reads(d, user, receipt) ==
  LET found == SaleByReceipt(d, receipt)
  IN IF ~may_void(user.role) THEN 403
     ELSE IF found = {} THEN 404
     ELSE IF already_voided(d.sales[CHOOSE k \in found : TRUE]) THEN 400
     ELSE 0

void_sale(d, be, user, receipt, reason, now, fuel) ==
  LET t0 == Begin(d, be, fuel)
      found == SaleByReceipt(d, receipt)
      sale == d.sales[CHOOSE k \in found : TRUE]
      items == ItemsOfSale(d, sale.id)
  IN IF ~may_void(user.role) THEN Refuse(t0, 403, <<>>)
     ELSE IF found = {} THEN Refuse(t0, 404, <<>>)
     ELSE IF already_voided(sale) THEN Refuse(t0, 400, <<>>)
     ELSE void_sale_writes(d, be, user, sale.id, items, receipt, reason, now, fuel)

\* ------------------------------------------------------------ purchase orders
\* Both order tables are AUTOINCREMENT / SERIAL: a rowid is issued once. The
\* sequence index is the rowid, its length the highest rowid issued, and a
\* deleted row leaves its slot empty.
NoOrder ==
  [id |-> 0, order_number |-> 0, status |-> "", received_date |-> 0, received_by |-> "",
   receive_notes |-> "", last_updated |-> 0]

NoOrderItem == [id |-> 0, order_id |-> 0, sku |-> NoSku, quantity |-> 0, received_qty |-> 0]

\* SELECT * FROM purchase_orders WHERE id = ? finds a row
OrderExists(d, order_id) ==
  order_id \in 1..Len(d.purchase_orders) /\ d.purchase_orders[order_id] # NoOrder

InsertOrder(d, status, now) ==
  [d EXCEPT !.purchase_orders = Append(@,
     [id |-> Len(d.purchase_orders) + 1, order_number |-> Len(d.purchase_orders) + 1,
      status |-> status, received_date |-> 0, received_by |-> "",
      receive_notes |-> "", last_updated |-> now])]

InsertOrderItem(d, order_id, it) ==
  [d EXCEPT !.purchase_order_items = Append(@,
     [id |-> Len(d.purchase_order_items) + 1, order_id |-> order_id,
      sku |-> it.sku, quantity |-> it.quantity, received_qty |-> 0])]

RECURSIVE order_lines(_, _, _, _)
order_lines(tx, items, i, order_id) ==
  IF i > Len(items) THEN tx
  ELSE order_lines(Exec(tx, InsertOrderItem(tx.db, order_id, items[i])),
                   items, i + 1, order_id)

create_order(d, be, user, items, now, fuel) ==
  LET t0 == Begin(d, be, fuel)
  IN IF user.role # "admin" THEN Refuse(t0, 403, <<>>)
     ELSE Done(order_lines(Exec(t0, InsertOrder(d, "draft", now)),
                           items, 1, Len(d.purchase_orders) + 1),
               200)

\* ------------------------------------------------------------ receive_order
\* SELECT * FROM purchase_order_items WHERE order_id = ? AND sku = ? ... fetchone()
OrderItemIndex(d, order_id, sku) ==
  {k \in 1..Len(d.purchase_order_items) :
     /\ d.purchase_order_items[k].order_id = order_id
     /\ d.purchase_order_items[k].sku = sku}

FirstOf(S) == CHOOSE k \in S : \A j \in S : k <= j

\* a fetched row answers .get() only when it is a DictRow (the PostgreSQL
\* wrapper); sqlite3.Row has no such method and the call raises AttributeError
RowHasGet(be) == be = "postgres"

Raise(tx) == [tx EXCEPT !.faulted = TRUE]

\* a receive that applies whatever the caller asks for
UncappedQty(recv_qty, ordered_qty, already_received) == recv_qty

\* the cap on one received line
CappedQty(recv_qty, ordered_qty, already_received) ==
  LET max_receivable == ordered_qty - already_received
  IN IF recv_qty > max_receivable THEN ScalarMax(max_receivable, 0) ELSE recv_qty

SetReceived(d, k, new_received) ==
  [d EXCEPT !.purchase_order_items[k].received_qty = new_received]

SetQuantity(d, sku, new_qty) ==
  [d EXCEPT !.inventory[sku] = new_qty]

InsertPurchase(d, sku, qty, invoice) ==
  [d EXCEPT !.purchases = Append(@,
     [sku |-> sku, quantity |-> qty, invoice_number |-> invoice])]

\* the stock side of one applied line: the product is looked up, its quantity
\* is set to old + capped, and the receipt is logged and recorded as a purchase
stock_in(tx, sku, capped, order_number) ==
  IF sku \notin DOMAIN tx.db.inventory THEN tx
  ELSE LET old_qty == tx.db.inventory[sku]
           t1 == Exec(tx, SetQuantity(tx.db, sku, old_qty + capped))
           t2 == Exec(t1, InsertLog(t1.db, sku, "PO Received", capped, order_number, ""))
       IN Exec(t2, InsertPurchase(t2.db, sku, capped, order_number))

\* one pass of the loop over the received items; st carries the transaction
\* and the all_received flag
RECURSIVE receive_lines(_, _, _, _, _)
receive_lines(st, be, order, batch, i) ==
  IF i > Len(batch) \/ st.tx.faulted THEN st
  ELSE
    LET sku == batch[i].sku
        recv_qty == batch[i].quantity
        found == OrderItemIndex(st.tx.db, order.id, sku)
        poi == st.tx.db.purchase_order_items[FirstOf(found)]
        capped == CappedQty(recv_qty, poi.quantity, poi.received_qty)
        new_received == poi.received_qty + capped
        next ==
          IF recv_qty <= 0 \/ found = {} THEN st
          ELSE IF ~RowHasGet(be) THEN [st EXCEPT !.tx = Raise(st.tx)]
          ELSE IF capped <= 0 THEN st
          ELSE [tx |-> stock_in(Exec(st.tx, SetReceived(st.tx.db, FirstOf(found),
                                                        new_received)),
                                sku, capped, order.order_number),
                all_received |-> st.all_received /\ ~(new_received < poi.quantity)]
    IN receive_lines(next, be, order, batch, i + 1)

MarkReceived(d, order_id, status, now, by, notes) ==
  [d EXCEPT !.purchase_orders[order_id] =
     [@ EXCEPT !.status = status, !.received_date = now, !.received_by = by,
               !.receive_notes = notes, !.last_updated = now]]

\* UPDATE purchase_orders SET status = ? ... executed after the item loop
order_received(st, order_id, now, by, notes) ==
  Exec(st.tx, MarkReceived(st.tx.db, order_id,
                           IF st.all_received THEN "received" ELSE "partial",
                           now, by, notes))

\* a status test that lets every order through
already_received_never(order) == FALSE

\* row["status"] == "received"
already_received(order) == order.status = "received"

receive_order(d, be, user, order_id, batch, notes, now, fuel) ==
  LET t0 == Begin(d, be, fuel)
      order == d.purchase_orders[order_id]
  IN IF user.role # "admin" THEN Refuse(t0, 403, <<>>)
     ELSE IF ~OrderExists(d, order_id) THEN Refuse(t0, 404, <<>>)
     ELSE IF already_received(order) THEN Refuse(t0, 400, <<>>)
     ELSE Done(order_received(receive_lines([tx |-> t0, all_received |-> TRUE],
                                            be, order, batch, 1),
                              order_id, now, user.name, notes),
               200)

\* ------------------------------------------------------------ delete_product
\* FOREIGN KEY (sku) REFERENCES inventory(sku) on inventory_log, purchases and
\* purchase_order_items: some row still names the product
Referenced(d, sku) ==
  \/ \E k \in 1..Len(d.inventory_log) : d.inventory_log[k].sku = sku
  \/ \E k \in 1..Len(d.purchases) : d.purchases[k].sku = sku
  \/ \E k \in 1..Len(d.purchase_order_items) : d.purchase_order_items[k].sku = sku

\* DELETE FROM inventory WHERE sku = ?
DeleteProductRow(d, sku) ==
  [d EXCEPT !.inventory = [s \in DOMAIN @ \ {sku} |-> @[s]]]

\* the DELETE raises on a foreign-key violation; with no such row it deletes
\* nothing, the commit is empty and the answer is 404
delete_product(d, be, sku, fuel) ==
  IF Referenced(d, sku) THEN Done(Raise(Begin(d, be, fuel)), 200)
  ELSE IF sku \notin DOMAIN d.inventory THEN Done(Begin(d, be, fuel), 404)
  ELSE Done(Exec(Begin(d, be, fuel), DeleteProductRow(d, sku)), 200)

\* ------------------------------------------------------------ update_order
\* the request carries no "status" key
KeepStatus == "(absent)"

\* UPDATE purchase_orders SET ..., status = ?, ..., last_updated = ? WHERE id = ?
\* with data.get("status", row["status"])
SetOrderFields(d, order_id, status, now) ==
  [d EXCEPT !.purchase_orders[order_id] =
     [@ EXCEPT !.status = IF status = KeepStatus THEN @ ELSE status,
               !.last_updated = now]]

\* INSERT INTO purchase_order_items (..., quantity, received_qty, ...) with the
\* request's int(it.get("received_qty", 0))
InsertOrderItemAsGiven(d, order_id, it) ==
  [d EXCEPT !.purchase_order_items = Append(@,
     [id |-> Len(d.purchase_order_items) + 1, order_id |-> order_id,
      sku |-> it.sku, quantity |-> it.quantity, received_qty |-> it.received_qty])]

RECURSIVE replaced_lines(_, _, _, _)
replaced_lines(tx, items, i, order_id) ==
  IF i > Len(items) THEN tx
  ELSE replaced_lines(Exec(tx, InsertOrderItemAsGiven(tx.db, order_id, items[i])),
                      items, i + 1, order_id)

\* DELETE FROM purchase_order_items WHERE order_id = ? as one statement of a transaction
items_deleted(tx, order_id) ==
  Exec(tx, [tx.db EXCEPT !.purchase_order_items =
              [k \in 1..Len(@) |-> IF @[k].order_id = order_id THEN NoOrderItem ELSE @[k]]])

update_order(d, be, user, order_id, status, items, now, fuel) ==
  IF user.role # "admin" THEN Refuse(Begin(d, be, fuel), 403, <<>>)
  ELSE IF ~OrderExists(d, order_id) THEN Refuse(Begin(d, be, fuel), 404, <<>>)
  ELSE Done(replaced_lines(items_deleted(Exec(Begin(d, be, fuel),
                                              SetOrderFields(d, order_id, status, now)),
                                         order_id),
                           items, 1, order_id),
            200)

\* ------------------------------------------------------------ delete_order
\* DELETE FROM purchase_order_items WHERE order_id = ?
DeleteOrderItems(d, order_id) ==
  [d EXCEPT !.purchase_order_items =
     [k \in 1..Len(@) |-> IF @[k].order_id = order_id THEN NoOrderItem ELSE @[k]]]

\* DELETE FROM purchase_orders WHERE id = ?
DeleteOrderRow(d, order_id) ==
  [d EXCEPT !.purchase_orders[order_id] = NoOrder]

\* a status test that lets every order be deleted
delete_blocked_never(order) == FALSE

\* row["status"] == "received"
delete_blocked(order) == order.status = "received"

order_deleted(tx, order_id) ==
  Exec(tx, DeleteOrderRow(tx.db, order_id))

delete_order(d, be, user, order_id, fuel) ==
  IF user.role # "admin" THEN Refuse(Begin(d, be, fuel), 403, <<>>)
  ELSE IF ~OrderExists(d, order_id) THEN Refuse(Begin(d, be, fuel), 404, <<>>)
  ELSE IF delete_blocked(d.purchase_orders[order_id])
    THEN Refuse(Begin(d, be, fuel), 400, <<>>)
  ELSE Done(order_deleted(Exec(Begin(d, be, fuel), DeleteOrderItems(d, order_id)),
                          order_id),
            200)

\* ------------------------------------------------------------ update_product
update_product(d, be, sku, new_qty, now, fuel) ==
  LET t0 == Begin(d, be, fuel)
      old_qty == d.inventory[sku]
      t1 == Exec(t0, SetQuantity(d, sku, new_qty))
  IN IF sku \notin DOMAIN d.inventory THEN Refuse(t0, 404, <<>>)
     ELSE IF new_qty < 0 THEN Refuse(t0, 400, <<>>)
     ELSE IF new_qty # old_qty
       THEN Done(Exec(t1, InsertLog(t1.db, sku, "Qty Adjusted", new_qty - old_qty,
                                    new_qty, "")),
                 200)
     ELSE Done(t1, 200)

\* ------------------------------------------------------------ unit of work
\* conn.commit(): the working copy becomes the committed database
commit(committed, working) == working

\* a close that flushes the pending statements
close_db_flush(committed, working) == working

\* close_db() at teardown: a connection closed with uncommitted statements
\* loses them
close_db(committed, working) == committed

\* the committed database once the request's unit of work has ended
teardown_db(d, r) ==
  IF r.committed THEN close_db(commit(d, r.tx.db), commit(d, r.tx.db))
  ELSE close_db(d, r.tx.db)

Store(d) ==
  /\ inventory' = d.inventory
  /\ sales' = d.sales
  /\ sale_items' = d.sale_items
  /\ inventory_log' = d.inventory_log
  /\ customers' = d.customers
  /\ purchase_orders' = d.purchase_orders
  /\ purchase_order_items' = d.purchase_order_items
  /\ purchases' = d.purchases

Finish(r) ==
  /\ Store(teardown_db(DB, r))
  /\ clock' = IF teardown_db(DB, r) # DB THEN clock + 1 ELSE clock

\* ------------------------------------------------------------ export / import
\* The tables export_all_data reads and import_all_data writes, with the
\* columns that carry a key or a constraint.
NoSettings == [k \in {} |-> ""]

FreshDB ==
  [users |-> <<>>, settings |-> NoSettings, inventory |-> <<>>, suppliers |-> <<>>,
   customers |-> <<>>, sales |-> <<>>, sale_items |-> <<>>,
   purchase_orders |-> <<>>, purchase_order_items |-> <<>>]

Reverse(seq) == [i \in 1..Len(seq) |-> seq[Len(seq) + 1 - i]]

\* export_all_data: every table as a list of dicts, settings as a dict, each
\* sale and each purchase order with its items nested; orders newest first
export_all_data(d) ==
  [users |-> d.users,
   settings |-> d.settings,
   inventory |-> d.inventory,
   suppliers |-> d.suppliers,
   customers |-> d.customers,
   sales |-> [i \in 1..Len(d.sales) |->
     [id |-> d.sales[i].id, receipt_number |-> d.sales[i].receipt_number,
      status |-> d.sales[i].status,
      items |-> SelectSeq(d.sale_items, LAMBDA it : it.sale_id = d.sales[i].id)]],
   purchase_orders |-> Reverse([i \in 1..Len(d.purchase_orders) |->
     [id |-> d.purchase_orders[i].id,
      order_number |-> d.purchase_orders[i].order_number,
      supplier_id |-> d.purchase_orders[i].supplier_id,
      status |-> d.purchase_orders[i].status,
      items |-> SelectSeq(d.purchase_order_items,
                          LAMBDA it : it.order_id = d.purchase_orders[i].id)]])]

\* INSERT OR IGNORE INTO users: id is the primary key, username is UNIQUE
RECURSIVE import_users(_, _, _)
import_users(w, rows, i) ==
  IF i > Len(rows) THEN w
  ELSE import_users(
         IF \E k \in 1..Len(w.users) :
              w.users[k].id = rows[i].id \/ w.users[k].username = rows[i].username
         THEN w
         ELSE [w EXCEPT !.users = Append(@, rows[i])],
         rows, i + 1)

\* INSERT OR REPLACE INTO settings (key, value)
import_settings(w, settings) ==
  [w EXCEPT !.settings =
     [k \in DOMAIN @ \cup DOMAIN settings |->
        IF k \in DOMAIN settings THEN settings[k] ELSE @[k]]]

\* INSERT OR IGNORE INTO inventory (sku, name, ..., quantity, ...): the statement
\* names no barcode, so the row takes the column default '' and meets both the
\* primary key on sku and the unique index on barcode
DefaultBarcode == ""

\* p["name"] of a product whose name is null in the posted JSON
NullName == "(null)"

\* inventory.name is NOT NULL: SQLite's OR IGNORE skips the row, PostgreSQL's
\* ON CONFLICT DO NOTHING covers unique conflicts only and the INSERT raises
insert_raises(be, row) == be = "postgres" /\ row.name = NullName

\* the loop over data["inventory"]; base is the database as last committed.
\* A raise reaches the loop's try/except after the wrapper's except branch has
\* run self._conn.rollback(), and the loop goes on.
RECURSIVE import_inventory(_, _, _, _, _)
import_inventory(w, base, be, rows, i) ==
  IF i > Len(rows) THEN w
  ELSE import_inventory(
         IF insert_raises(be, rows[i]) THEN rollback(base, w)
         ELSE IF \/ rows[i].name = NullName
                 \/ \E k \in 1..Len(w.inventory) :
                      w.inventory[k].sku = rows[i].sku \/ w.inventory[k].barcode = DefaultBarcode
         THEN w
         ELSE [w EXCEPT !.inventory = Append(@,
                 [sku |-> rows[i].sku, name |-> rows[i].name,
                  barcode |-> DefaultBarcode, quantity |-> rows[i].quantity])],
         base, be, rows, i + 1)

\* INSERT OR IGNORE INTO suppliers (name, ...): name is UNIQUE, id is generated
RECURSIVE import_suppliers(_, _, _)
import_suppliers(w, rows, i) ==
  IF i > Len(rows) THEN w
  ELSE import_suppliers(
         IF \E k \in 1..Len(w.suppliers) : w.suppliers[k].name = rows[i].name
         THEN w
         ELSE [w EXCEPT !.suppliers = Append(@,
                 [id |-> Len(w.suppliers) + 1, name |-> rows[i].name,
                  phone |-> rows[i].phone])],
         rows, i + 1)

\* INSERT OR IGNORE INTO customers (phone, name, ...): phone is UNIQUE
RECURSIVE import_customers(_, _, _)
import_customers(w, rows, i) ==
  IF i > Len(rows) THEN w
  ELSE import_customers(
         IF \E k \in 1..Len(w.customers) : w.customers[k].phone = rows[i].phone
         THEN w
         ELSE [w EXCEPT !.customers = Append(@,
                 [id |-> Len(w.customers) + 1, phone |-> rows[i].phone,
                  name |-> rows[i].name])],
         rows, i + 1)

\* int(item.get("quantity", 1)) raises on a value that is not a number; such an
\* item is one that carries no numeric quantity
WellFormed(items) == \A j \in 1..Len(items) : "quantity" \in DOMAIN items[j]

\* the sale row and its item rows, as inserted under the generated sale id
InsertImportedSale(w, s) ==
  LET sale_id == Len(w.sales) + 1
  IN [w EXCEPT
        !.sales = Append(@, [id |-> sale_id, receipt_number |-> s.receipt_number,
                             status |-> s.status]),
        !.sale_items = @ \o [j \in 1..Len(s.items) |->
                               [sale_id |-> sale_id, sku |-> s.items[j].sku,
                                quantity |-> s.items[j].quantity]]]

\* one commit per sale; a sale whose INSERT raises (receipt_number is UNIQUE) or
\* whose item raises is rolled back and the loop goes on. im.db is the
\* committed database, im.work the connection's working copy.
RECURSIVE import_sales(_, _, _)
import_sales(im, rows, i) ==
  IF i > Len(rows) THEN im
  ELSE import_sales(
         IF \/ \E k \in 1..Len(im.work.sales) :
                 im.work.sales[k].receipt_number = rows[i].receipt_number
            \/ ~WellFormed(rows[i].items)
         THEN [im EXCEPT !.work = rollback(im.db, im.work)]
         ELSE [im EXCEPT !.db = commit(im.db, InsertImportedSale(im.work, rows[i])),
                         !.work = InsertImportedSale(im.work, rows[i]),
                         !.imported.sales = @ + 1],
         rows, i + 1)

InsertImportedOrder(w, po) ==
  LET order_id == Len(w.purchase_orders) + 1
  IN [w EXCEPT
        !.purchase_orders = Append(@, [id |-> order_id, order_number |-> po.order_number,
                                       supplier_id |-> po.supplier_id,
                                       status |-> po.status]),
        !.purchase_order_items = @ \o [j \in 1..Len(po.items) |->
                               [order_id |-> order_id, sku |-> po.items[j].sku,
                                quantity |-> po.items[j].quantity]]]

\* one commit per order; order_number is UNIQUE, supplier_id references
\* suppliers(id) and each item's sku references inventory(sku)
RECURSIVE import_orders(_, _, _)
import_orders(im, rows, i) ==
  IF i > Len(rows) THEN im
  ELSE import_orders(
         IF \/ \E k \in 1..Len(im.work.purchase_orders) :
                 im.work.purchase_orders[k].order_number = rows[i].order_number
            \/ ~\E k \in 1..Len(im.work.suppliers) :
                 im.work.suppliers[k].id = rows[i].supplier_id
            \/ ~WellFormed(rows[i].items)
            \/ \E j \in 1..Len(rows[i].items) :
                 ~\E k \in 1..Len(im.work.inventory) :
                    im.work.inventory[k].sku = rows[i].items[j].sku
         THEN [im EXCEPT !.work = rollback(im.db, im.work)]
         ELSE [im EXCEPT !.db = commit(im.db, InsertImportedOrder(im.work, rows[i])),
                         !.work = InsertImportedOrder(im.work, rows[i]),
                         !.imported.purchase_orders = @ + 1],
         rows, i + 1)

\* the entity groups in the order import_all_data replays them
NGroups == 7
GroupNames == <<"users", "settings", "inventory", "suppliers", "customers",
                "sales", "purchase_orders">>

\* an import that commits nothing between groups
group_commit_never(committed, working) == committed

\* conn.commit() at the end of a group
group_commit(committed, working) == commit(committed, working)

\* the statements of group g on the working copy
group_rows(w, base, be, data, g) ==
  IF g = 1 THEN import_users(w, data.users, 1)
  ELSE IF g = 2 THEN import_settings(w, data.settings)
  ELSE IF g = 3 THEN import_inventory(w, base, be, data.inventory, 1)
  ELSE IF g = 4 THEN import_suppliers(w, data.suppliers, 1)
  ELSE import_customers(w, data.customers, 1)

\* group g of the import; crash names the group in which an error escapes the
\* function (0: none), after the group's statements and before its commit
\* imported[...] += 1 after each execute of the group that did not raise,
\* whether or not the statement inserted a row
group_count(be, data, g) ==
  IF g = 1 THEN Len(data.users)
  ELSE IF g = 2 THEN Cardinality(DOMAIN data.settings)
  ELSE IF g = 3 THEN Cardinality({i \in 1..Len(data.inventory) :
                                    ~insert_raises(be, data.inventory[i])})
  ELSE IF g = 4 THEN Len(data.suppliers)
  ELSE Len(data.customers)

import_group(im, data, g, crash) ==
  IF im.stopped THEN im
  ELSE IF g = crash
    THEN [im EXCEPT !.stopped = TRUE,
                    !.work = close_db(im.db, IF g <= 5
                                             THEN group_rows(im.work, im.db, im.be, data, g)
                                             ELSE im.work)]
  ELSE IF g = 6 THEN import_sales(im, data.sales, 1)
  ELSE IF g = 7 THEN import_orders(im, data.purchase_orders, 1)
  ELSE [im EXCEPT !.db = group_commit(im.db, group_rows(im.work, im.db, im.be, data, g)),
                  !.work = group_rows(im.work, im.db, im.be, data, g),
                  !.imported[GroupNames[g]] = group_count(im.be, data, g)]

RECURSIVE import_groups(_, _, _, _)
import_groups(im, data, g, crash) ==
  IF g > NGroups THEN im
  ELSE import_groups(import_group(im, data, g, crash), data, g + 1, crash)

\* import_all_data on database d, and the database the closed connection
\* leaves behind
NoneImported == [n \in {GroupNames[g] : g \in 1..NGroups} |-> 0]

\* the run of the function: the database it leaves and the counts it returns
import_all_data(d, be, data, crash) ==
  import_groups([db |-> d, work |-> d, be |-> be, stopped |-> FALSE,
                 imported |-> NoneImported], data, 1, crash)

\* the exporting database, the snapshot taken from it, the importing database,
\* and of the last import: the database it found, the data it was given and
\* the group in which it was cut short
NoMig ==
  [local |-> FreshDB, cloud |-> FreshDB, data |-> export_all_data(FreshDB),
   step |-> "none", before |-> FreshDB, sent |-> export_all_data(FreshDB), crash |-> 0,
   imported |-> NoneImported]

\* ------------------------------------------------------------ startup migration
\* The database init_db finds at process start: the inventory rows in
\* (date_added, sku) order with their key columns, the SKU column of the four
\* tables that reference a product, the currency setting, the seeded tables,
\* and whether the unique index on inventory.barcode exists.
NoValue == "(none)"

BarcodePool == {"100001", "100002", "100003"}    \* str(random.randint(100000, 999999))
SkuPool == {"200001", "200002", "200003"}
OldSkus == {"NLF-1", "NLF-2"}

\* LENGTH(barcode) = 6, on the barcodes of this model
SixLong(barcode) == barcode \in BarcodePool

\* f"NLF-{cat_prefix}-{uuid.uuid4().hex[:4].upper()}" for the default category
NewProductSkus == {"NLF-GEN-0A1B"}

\* sku LIKE 'NLF-%', on the SKUs of this model
IsOldSku(sku) == sku \in OldSkus \cup NewProductSkus

\* the outcomes of random.randint in the order they are drawn, each value of
\* the pool once: what is drawn again is in use and retried anyway
Draws(codes) ==
  {d \in [1..Cardinality(codes) -> codes] : \A i, j \in DOMAIN d : d[i] = d[j] => i = j}

\* while True: code = str(random.randint(...)); if code not in used: return code
_gen_random_barcode(used, draws) ==
  draws[CHOOSE i \in DOMAIN draws :
          draws[i] \notin used /\ \A j \in 1..(i - 1) : draws[j] \in used]

\* a filter that takes every barcode for a sequential one
sequential_any(barcode) == barcode # ""

\* barcode IS NOT NULL AND barcode != '' AND LENGTH(barcode) != 6
sequential(barcode) == barcode # "" /\ ~SixLong(barcode)

\* the loop over sequential_rows; st carries the inventory rows and the used set
RECURSIVE rerandomize(_, _, _)
rerandomize(st, draws, i) ==
  IF i > Len(st.inv) THEN st
  ELSE IF sequential(st.inv[i].barcode)
    THEN rerandomize([inv |-> [st.inv EXCEPT ![i].barcode = _gen_random_barcode(st.used, draws)],
                      used |-> (st.used \cup {_gen_random_barcode(st.used, draws)})
                                 \ {st.inv[i].barcode}],
                     draws, i + 1)
  ELSE rerandomize(st, draws, i + 1)

\* the loop over empty_barcode_rows
RECURSIVE fill_empty(_, _, _)
fill_empty(st, draws, i) ==
  IF i > Len(st.inv) THEN st
  ELSE IF st.inv[i].barcode = ""
    THEN fill_empty([inv |-> [st.inv EXCEPT ![i].barcode = _gen_random_barcode(st.used, draws)],
                     used |-> st.used \cup {_gen_random_barcode(st.used, draws)}],
                    draws, i + 1)
  ELSE fill_empty(st, draws, i + 1)

existing_barcodes(inv) == {inv[i].barcode : i \in 1..Len(inv)} \ {""}

\* the inventory rows after both barcode loops
new_barcodes(inv, draws) ==
  fill_empty(rerandomize([inv |-> inv, used |-> existing_barcodes(inv)], draws, 1),
             draws, 1).inv

Distinct(inv, column) ==
  \A i, j \in 1..Len(inv) : inv[i][column] = inv[j][column] => i = j

\* CREATE UNIQUE INDEX IF NOT EXISTS idx_inventory_barcode: a duplicate makes it
\* raise; SQLite passes over the error, PostgreSQL rolls the open transaction
\* (the barcode updates) back
barcode_step(l, be, draws) ==
  IF l.barcode_index \/ Distinct(new_barcodes(l.inventory, draws), "barcode")
    THEN [l EXCEPT !.inventory = new_barcodes(l.inventory, draws), !.barcode_index = TRUE]
  ELSE IF be = "postgres" THEN l
  ELSE [l EXCEPT !.inventory = new_barcodes(l.inventory, draws)]

\* value.strip().lower() in ('rs', 'rs.', 'inr'), on the values of this model
IsRupeeWord(value) == value = "Rs"

\* SQLite rewrites a currency word; PostgreSQL forces every value other than
\* the rupee sign and inserts the row when it is missing
currency_step(l, be) ==
  IF be = "postgres"
    THEN [l EXCEPT !.currency_symbol = "₹"]
  ELSE IF l.currency_symbol # NoValue /\ IsRupeeWord(l.currency_symbol)
    THEN [l EXCEPT !.currency_symbol = "₹"]
  ELSE l

\* UPDATE {tbl} SET sku = ? WHERE sku = ?
Rekey(rows, old_sku, new_sku) ==
  [k \in 1..Len(rows) |-> IF rows[k].sku = old_sku THEN [rows[k] EXCEPT !.sku = new_sku]
                          ELSE rows[k]]

Refers(rows, sku) == \E k \in 1..Len(rows) : rows[k].sku = sku

\* one SKU re-keyed with the foreign keys out of force: the three child tables
\* of the loop, then the inventory row
rekey_unchecked(l, old_sku, new_sku) ==
  [l EXCEPT !.sale_items = Rekey(@, old_sku, new_sku),
            !.inventory_log = Rekey(@, old_sku, new_sku),
            !.purchase_order_items = Rekey(@, old_sku, new_sku),
            !.inventory = Rekey(@, old_sku, new_sku)]

\* the same with the foreign keys in force (DISABLE TRIGGER ALL was refused):
\* a child update that would point at the SKU not yet in inventory is undone at
\* its savepoint, sale_items has no such key, and the inventory update raises
\* when a row still refers to the old SKU
rekey_checked(l, old_sku, new_sku) ==
  IF \/ Refers(l.inventory_log, old_sku)
     \/ Refers(l.purchase_order_items, old_sku)
     \/ Refers(l.purchases, old_sku)
    THEN [db |-> l, raised |-> TRUE]
  ELSE [db |-> [l EXCEPT !.sale_items = Rekey(@, old_sku, new_sku),
                         !.inventory = Rekey(@, old_sku, new_sku)],
        raised |-> FALSE]

used_skus(inv) == {inv[i].sku : i \in 1..Len(inv)} \ {""}

\* the loop over old_sku_rows; st carries the database, the used set and
\* whether a statement raised
RECURSIVE rekey_rows(_, _, _, _, _)
rekey_rows(st, rows, draws, fk_off, i) ==
  IF i > Len(rows) \/ st.raised THEN st
  ELSE IF ~IsOldSku(rows[i].sku) THEN rekey_rows(st, rows, draws, fk_off, i + 1)
  ELSE IF fk_off
    THEN rekey_rows([db |-> rekey_unchecked(st.db, rows[i].sku,
                                            _gen_random_barcode(st.used, draws)),
                     used |-> st.used \cup {_gen_random_barcode(st.used, draws)},
                     raised |-> FALSE],
                    rows, draws, fk_off, i + 1)
  ELSE rekey_rows([db |-> rekey_checked(st.db, rows[i].sku,
                                        _gen_random_barcode(st.used, draws)).db,
                   used |-> st.used \cup {_gen_random_barcode(st.used, draws)},
                   raised |-> rekey_checked(st.db, rows[i].sku,
                                            _gen_random_barcode(st.used, draws)).raised],
                  rows, draws, fk_off, i + 1)

\* the SKU migration; when a statement raises, the transaction it ran in is
\* lost and init_db does not return
sku_step(l, draws, fk_off) ==
  IF rekey_rows([db |-> l, used |-> used_skus(l.inventory), raised |-> FALSE],
                l.inventory, draws, fk_off, 1).raised
    THEN [db |-> l, completed |-> FALSE]
  ELSE [db |-> rekey_rows([db |-> l, used |-> used_skus(l.inventory), raised |-> FALSE],
                          l.inventory, draws, fk_off, 1).db,
        completed |-> TRUE]

\* INSERT OR IGNORE of each distinct non-empty value, into an empty table only
RECURSIVE seed(_, _, _, _)
seed(table, rows, column, i) ==
  IF i > Len(rows) THEN table
  ELSE IF strip(rows[i][column]) = "" \/ \E k \in 1..Len(table) : table[k] = strip(rows[i][column])
    THEN seed(table, rows, column, i + 1)
  ELSE seed(Append(table, strip(rows[i][column])), rows, column, i + 1)

seed_step(l) ==
  [l EXCEPT !.suppliers = IF Len(@) = 0 THEN seed(@, l.inventory, "supplier", 1) ELSE @,
            !.customers = IF Len(@) = 0 THEN seed(@, l.sales, "customer_phone", 1) ELSE @]

\* sqlite3 opens a transaction before the first UPDATE of the connection and
\* the function commits only after the SKU migration: a barcode or currency
\* update leaves one open when PRAGMA foreign_keys = OFF is reached
in_transaction(l) ==
  \/ \E i \in 1..Len(l.inventory) :
        l.inventory[i].barcode = "" \/ sequential(l.inventory[i].barcode)
  \/ l.currency_symbol # NoValue /\ IsRupeeWord(l.currency_symbol)

\* PRAGMA foreign_keys is a no-op inside a transaction, so the keys stay in
\* force then; a statement that raises ends init_db before its commit and the
\* connection's uncommitted updates are lost
_run_sqlite_migrations(l, bdraws, sdraws) ==
  IF sku_step(currency_step(barcode_step(l, "sqlite", bdraws), "sqlite"),
              sdraws, ~in_transaction(l)).completed
    THEN [db |-> seed_step(sku_step(currency_step(barcode_step(l, "sqlite", bdraws),
                                                  "sqlite"),
                                    sdraws, ~in_transaction(l)).db),
          completed |-> TRUE]
  ELSE [db |-> l, completed |-> FALSE]

_run_pg_migrations(l, bdraws, sdraws, superuser) ==
  sku_step(currency_step(barcode_step(l, "postgres", bdraws), "postgres"), sdraws, superuser)

\* init_db: the schema statements create nothing that exists, then the
\* backend's migrations run
init_db(l, be, bdraws, sdraws, superuser) ==
  IF be = "postgres" THEN _run_pg_migrations(l, bdraws, sdraws, superuser)
  ELSE _run_sqlite_migrations(l, bdraws, sdraws)

\* a database of a fresh installation
NoLegacy ==
  [inventory |-> <<>>, sale_items |-> <<>>, inventory_log |-> <<>>, purchases |-> <<>>,
   purchase_order_items |-> <<>>, sales |-> <<>>, currency_symbol |-> NoValue,
   suppliers |-> <<>>, customers |-> <<>>, barcode_index |-> FALSE]

\* no process start yet
NoBoot ==
  [db |-> NoLegacy, before |-> NoLegacy, runs |-> 0, completed |-> FALSE, superuser |-> TRUE]

\* ------------------------------------------------------------ connection management
\* The threads of the process: the one that imports the application (and runs
\* init_db), and the request workers.
Threads == {"main", "w1", "w2"}

\* a module-level slot, the same for every thread
_global(thread) == "main"

\* _local = threading.local(): the slot a thread sees is its own
_local(thread) == thread

\* sqlite3.connect / psycopg2.connect: a new connection, owned by the thread
\* that opened it
Connect(p, thread) ==
  [p EXCEPT !.conns = Append(@, [owner |-> thread, state |-> "open"]),
            !.slot[_local(thread)] = Len(p.conns) + 1]

\* get_db(): the connection of the caller's slot, opened first when the slot is
\* empty; got notes what the call returned
get_db(p, thread) ==
  IF p.slot[_local(thread)] = 0
    THEN [Connect(p, thread) EXCEPT !.got[thread] = Len(p.conns) + 1]
  ELSE [p EXCEPT !.got[thread] = p.slot[_local(thread)]]

\* close_db(): conn.close() inside try/except, then the slot is cleared; a
\* close that raised leaves the connection to the garbage collector
pool_close_db(p, thread, close_raises) ==
  IF p.slot[_local(thread)] = 0 THEN p
  ELSE [p EXCEPT !.conns[p.slot[_local(thread)]].state =
                    IF close_raises THEN "abandoned" ELSE "closed",
                 !.slot[_local(thread)] = 0]

\* no thread has started
NoPool ==
  [slot |-> [t \in Threads |-> 0], got |-> [t \in Threads |-> 0], conns |-> <<>>,
   pc |-> [t \in Threads |-> "idle"], started |-> FALSE, main_serves |-> FALSE,
   outcome |-> "none"]

\* ------------------------------------------------------------ cursor.lastrowid
\* _SERIAL_TABLES: the tables whose id is generated by the backend
_SERIAL_TABLES ==
  {"suppliers", "customers", "sales", "sale_items", "inventory_log", "purchases",
   "purchase_orders", "purchase_order_items"}

\* the tables whose key the caller supplies
KeyedTables == {"inventory", "users", "settings", "held_transactions"}

\* the tables the model inserts into: two of each kind
InsertTables == {"sales", "customers", "inventory", "settings"}

\* self._lastrowid = None; sqlite3_last_insert_rowid() of a connection that has
\* inserted nothing
NoRowId == 0

\* table_name in self._SERIAL_TABLES
serial(table) == table \in _SERIAL_TABLES

\* PgConnectionWrapper.execute of an INSERT: RETURNING id is appended for the
\* serial tables only and _lastrowid is taken from the returned row, which is
\* missing when ON CONFLICT DO NOTHING skipped the insert
pg_lastrowid(table, inserted, id) ==
  IF serial(table) /\ inserted THEN id ELSE NoRowId

\* sqlite3: the cursor of an INSERT reports sqlite3_last_insert_rowid() of the
\* connection: the rowid of the row just inserted, in every table that has a
\* rowid (a TEXT PRIMARY KEY table has one), and the value left by the earlier
\* insert when INSERT OR IGNORE skipped the row
sqlite_lastrowid(inserted, id, last_insert_rowid) ==
  IF inserted THEN id ELSE last_insert_rowid

\* conn.execute("INSERT ..."): the cursor state after the statement; skipped is
\* an INSERT OR IGNORE whose key exists
execute_insert(c, be, table, skipped) ==
  [rows |-> IF skipped THEN c.rows ELSE [c.rows EXCEPT ![table] = @ + 1],
   table |-> table,
   inserted |-> ~skipped,
   lastrowid |-> IF be = "postgres" THEN pg_lastrowid(table, ~skipped, c.rows[table] + 1)
                 ELSE sqlite_lastrowid(~skipped, c.rows[table] + 1, c.last_insert_rowid),
   last_insert_rowid |-> IF skipped THEN c.last_insert_rowid ELSE c.rows[table] + 1]

\* a connection that has executed no insert
NoCursor ==
  [rows |-> [t \in InsertTables |-> 0], table |-> "none", inserted |-> FALSE,
   lastrowid |-> NoRowId, last_insert_rowid |-> NoRowId]

\* ------------------------------------------------------------ actions
\* the lines of a request that the stock check must refuse (stated from the
\* request and the inventory, not from the handler's error list)
FailingLines(inv, items) ==
  {i \in 1..Len(items) :
     /\ items[i].sku # NoSku
     /\ \/ items[i].sku \notin DOMAIN inv
        \/ items[i].quantity > inv[items[i].sku]}

\* the lines of a request whose quantity is zero or negative
OutOfRangeLines(items) == {i \in 1..Len(items) : items[i].quantity <= 0}

\* the record of the last request: which handler, its response code, the row it
\* addressed, and what the properties below need to know of the request
Resp(op, code, id) ==
  [op |-> op, code |-> code, id |-> id, nerr |-> 0, nfail |-> 0, nlines |-> 0,
   imm |-> FALSE, pre |-> inventory, capped |-> TRUE, dirty |-> FALSE, oor |-> 0,
   logfail |-> FALSE, role |-> ""]

NoLast == Resp("none", 0, 0)

CreateSale(items, cust) ==
  /\ Len(sales) < MaxSales
  /\ Len(sale_items) + Len(items) <= MaxItems
  /\ \E r \in {create_sale(DB, backend, items, cust, NoFault)} :
        /\ Finish(r)
        /\ last' = [Resp("create_sale", r.code, Len(sales) + 1) EXCEPT
                      !.nerr = Len(r.details),
                      !.nfail = Cardinality(FailingLines(inventory, items)),
                      !.nlines = Len(items),
                      !.oor = Cardinality(OutOfRangeLines(items))]
  /\ UNCHANGED <<backend, cur, conc, mig, boot, pool>>

VoidSale(user, receipt, reason) ==
  /\ \E r \in {void_sale(DB, backend, user, receipt, reason, clock, NoFault)},
        after_sale \in {last.op = "create_sale" /\ last.code = 201 /\ last.id = receipt} :
        /\ Finish(r)
        /\ last' = [Resp("void_sale", r.code, receipt) EXCEPT
                      !.role = user.role,
                      !.imm = after_sale,
                      !.pre = IF after_sale THEN last.pre ELSE inventory]
  /\ UNCHANGED <<backend, cur, conc, mig, boot, pool>>

\* order lines name each SKU once
DistinctSkus(items) ==
  \A i, j \in 1..Len(items) : items[i].sku = items[j].sku => i = j

OrderLines == [sku : Products, quantity : 0..MaxQty]
OrderItems == {items \in SeqsUpTo(OrderLines, MaxLines) : DistinctSkus(items)}

CreateOrder(user, items) ==
  /\ Len(purchase_orders) < MaxOrders
  /\ \E r \in {create_order(DB, backend, user, items, clock, NoFault)} :
        /\ Finish(r)
        /\ last' = Resp("create_order", r.code, Len(purchase_orders) + 1)
  /\ UNCHANGED <<backend, cur, conc, mig, boot, pool>>

\* what the cap rule says a line's received_qty is after the batch: each batch
\* line naming the SKU adds min(requested, ordered - received so far), and
\* nothing when that is not positive
Min(a, b) == IF a <= b THEN a ELSE b

RECURSIVE ReceivedByRule(_, _, _, _, _)
ReceivedByRule(sku, ordered, received, batch, i) ==
  IF i > Len(batch) THEN received
  ELSE LET amount == Min(batch[i].quantity, ordered - received)
       IN ReceivedByRule(sku, ordered,
                         IF batch[i].sku = sku /\ batch[i].quantity > 0 /\ amount > 0
                         THEN received + amount ELSE received,
                         batch, i + 1)

RecvLines == [sku : Products \cup {UnknownSku}, quantity : 0..(MaxQty + 1)]
RecvBatches == {<<>>} \cup SeqsUpTo(RecvLines, MaxLines)

ReceiveOrder(user, order_id, batch) ==
  /\ \E r \in {receive_order(DB, backend, user, order_id, batch, "", clock, NoFault)} :
     LET post == r.tx.db.purchase_order_items
     IN /\ Finish(r)
        /\ last' = [Resp("receive_order", r.code, order_id) EXCEPT
                      !.nlines = Len(batch),
                      !.nfail = Cardinality(
                        {i \in 1..Len(batch) :
                           \E k \in OrderItemIndex(DB, order_id, batch[i].sku) :
                             batch[i].quantity > purchase_order_items[k].quantity
                                                 - purchase_order_items[k].received_qty}),
                      !.capped =
                        (r.code = 200 =>
                           \A k \in 1..Len(purchase_order_items) :
                             purchase_order_items[k].order_id = order_id =>
                               post[k].received_qty =
                                 ReceivedByRule(purchase_order_items[k].sku,
                                                purchase_order_items[k].quantity,
                                                purchase_order_items[k].received_qty,
                                                batch, 1))]
  /\ UNCHANGED <<backend, cur, conc, mig, boot, pool>>

\* the request workers (threads of the WSGI server, each with its own connection)
Workers == {"w1", "w2"}

\* no worker has taken a request; start is the database the first one will find
Idle(d) ==
  [pc    |-> [w \in Workers |-> "idle"],
   items |-> [w \in Workers |-> <<>>],
   code  |-> [w \in Workers |-> 0],
   op    |-> [w \in Workers |-> "none"],
   arg   |-> [w \in Workers |-> 0],
   seen  |-> [w \in Workers |-> d.inventory],
   start |-> d]

\* the application as installed: products stocked, nothing sold or ordered yet
Installed ==
  /\ backend \in Backends
  /\ inventory = [s \in Products |-> InitQty]
  /\ sales = <<>>
  /\ sale_items = <<>>
  /\ inventory_log = <<>>
  /\ customers = <<>>
  /\ purchase_orders = <<>>
  /\ purchase_order_items = <<>>
  /\ purchases = <<>>
  /\ clock = 1
  /\ last = NoLast
  /\ conc = Idle(DB)
  /\ cur = NoCursor

Init ==
  /\ Installed
  /\ mig = NoMig
  /\ boot = NoBoot
  /\ pool = NoPool

\* sales and voids
Next ==
  \/ \E items \in SaleItems, cust \in SaleCustomers : CreateSale(items, cust)
  \/ \E user \in Users, receipt \in 1..MaxSales, reason \in Reasons :
       VoidSale(user, receipt, reason)

Spec == Init /\ [][Next]_vars

\* purchase orders and their receiving
NextPO ==
  \/ \E user \in Users, items \in OrderItems : CreateOrder(user, items)
  \/ \E user \in Users, order_id \in 1..MaxOrders, batch \in RecvBatches :
       ReceiveOrder(user, order_id, batch)

SpecPO == Init /\ [][NextPO]_vars

\* C1: after any sequence of committed sales, voids and receives, every
\* product's quantity-on-hand is >= 0
C1_QuantityNeverNegative ==
  \A s \in DOMAIN inventory : inventory[s] >= 0

\* ------------------------------------------------------------ the whole ledger
EditQtys == (-1)..MaxQty

UpdateProduct(sku, new_qty) ==
  /\ Cardinality({k \in 1..Len(inventory_log) :
                    inventory_log[k].action = "Qty Adjusted"}) < MaxEdits
  /\ \E r \in {update_product(DB, backend, sku, new_qty, clock, NoFault)} :
        /\ Finish(r)
        /\ last' = Resp("update_product", r.code, 0)
  /\ UNCHANGED <<backend, cur, conc, mig, boot, pool>>

\* a handler in which the statement after the first k raises an unexpected error
CreateSaleFault(items, cust, k) ==
  /\ Len(sales) < MaxSales
  /\ \E r \in {create_sale(DB, backend, items, cust, k)} :
        /\ r.code = 500
        /\ Finish(r)
        /\ last' = [Resp("create_sale", r.code, Len(sales) + 1) EXCEPT
                      !.nlines = Len(items), !.dirty = k >= 1,
                      !.logfail = r.tx.log_raised]
  /\ UNCHANGED <<backend, cur, conc, mig, boot, pool>>

VoidSaleFault(user, receipt, reason, k) ==
  /\ \E r \in {void_sale(DB, backend, user, receipt, reason, clock, k)} :
        /\ r.code = 500
        /\ Finish(r)
        /\ last' = [Resp("void_sale", r.code, receipt) EXCEPT
                      !.role = user.role,
                      !.dirty = k >= 1, !.logfail = r.tx.log_raised]
  /\ UNCHANGED <<backend, cur, conc, mig, boot, pool>>

ReceiveOrderFault(user, order_id, batch, k) ==
  /\ \E r \in {receive_order(DB, backend, user, order_id, batch, "", clock, k)} :
        /\ r.code = 500
        /\ Finish(r)
        /\ last' = [Resp("receive_order", r.code, order_id) EXCEPT
                      !.nlines = Len(batch), !.dirty = k >= 1 /\ r.tx.fuel = 0,
                      !.logfail = r.tx.log_raised]
  /\ UNCHANGED <<backend, cur, conc, mig, boot, pool>>

\* the requests of the whole-ledger specification: one line on product A
LedgerSales == {<< [sku |-> "A", quantity |-> q] >> : q \in 1..MaxQty}
LedgerOrders == {<< [sku |-> "A", quantity |-> MaxQty] >>}
LedgerBatches == {<<>>} \cup {<< [sku |-> "A", quantity |-> q] >> : q \in {1, MaxQty + 1}}
LedgerUsers == {u \in Users : u.role # "manager"}
FaultPoints == 0..MaxFaultAt

NextLedger ==
  \/ \E items \in LedgerSales : CreateSale(items, NoCustomer)
  \/ \E user \in LedgerUsers, receipt \in 1..MaxSales : VoidSale(user, receipt, "damaged")
  \/ \E user \in LedgerUsers, items \in LedgerOrders : CreateOrder(user, items)
  \/ \E user \in LedgerUsers, order_id \in 1..MaxOrders, batch \in LedgerBatches :
       ReceiveOrder(user, order_id, batch)
  \/ \E sku \in {"A", UnknownSku}, q \in EditQtys : UpdateProduct(sku, q)
  \/ \E items \in LedgerSales, k \in FaultPoints : CreateSaleFault(items, NoCustomer, k)
  \/ \E user \in LedgerUsers, receipt \in 1..MaxSales, k \in FaultPoints :
       VoidSaleFault(user, receipt, "damaged", k)
  \/ \E user \in LedgerUsers, order_id \in 1..MaxOrders, batch \in LedgerBatches,
        k \in FaultPoints : ReceiveOrderFault(user, order_id, batch, k)

SpecLedger == Init /\ [][NextLedger]_vars

\* ------------------------------------------------------------ two workers
\* create_sale on worker w up to the end of the stock check: the SELECTs read the
\* committed database; a request with errors is answered 400 at once
SaleValidate(w, items) ==
  /\ conc.pc[w] = "idle"
  /\ LET errs == stock_errors(DB, items, 1)
         first == \A v \in Workers : conc.pc[v] = "idle"
     IN /\ conc' = [conc EXCEPT !.pc[w] = IF errs # <<>> THEN "done" ELSE "validated",
                                !.items[w] = items,
                                !.code[w] = IF errs # <<>> THEN 400 ELSE 0,
                                !.start = IF first THEN DB ELSE @]
        /\ last' = IF errs # <<>>
                   THEN [Resp("create_sale", 400, 0) EXCEPT
                           !.nerr = Len(errs),
                           !.nfail = Cardinality(FailingLines(inventory, items)),
                           !.nlines = Len(items)]
                   ELSE last
  /\ UNCHANGED <<backend, cur, mig, boot, pool, tables, clock>>

\* create_sale on worker w from the INSERT to conn.commit(): the engine lets one
\* writer in at a time, and each UPDATE works on the row as last committed
SaleWrite(w) ==
  /\ conc.pc[w] = "validated"
  /\ \E r \in {create_sale_writes(DB, backend, conc.items[w], NoCustomer, NoFault)} :
        /\ Finish(r)
        /\ conc' = [conc EXCEPT !.pc[w] = "done", !.code[w] = r.code]
        /\ last' = [Resp("create_sale", r.code, Len(sales) + 1) EXCEPT
                      !.nlines = Len(conc.items[w])]
  /\ UNCHANGED <<backend, cur, mig, boot, pool>>

\* a product edit before either worker has taken its request
Restock(sku, q) ==
  /\ \A w \in Workers : conc.pc[w] = "idle"
  /\ UpdateProduct(sku, q)

ConcSales == {<< [sku |-> "A", quantity |-> q] >> : q \in 1..MaxQty}

NextConc ==
  \/ \E sku \in Products \cup {UnknownSku}, q \in EditQtys : Restock(sku, q)
  \/ \E w \in Workers, items \in ConcSales : SaleValidate(w, items)
  \/ \E w \in Workers : SaleWrite(w)

\* sales that carry customer details: phones, names and emails as typed at the
\* till, with and without surrounding blanks
Phones == {"", "555", " 555 ", "777"}
Names == {"", " ", "Ann", "Bob"}
Emails == {"", "ann@example.com"}
TillCustomers == [phone : Phones, name : Names, email : Emails]
TillSales == {<< [sku |-> sku, quantity |-> q] >> : sku \in {"A"}, q \in {1, MaxQty}}
                \cup {<< [sku |-> "B", quantity |-> 1] >>}

NextCust ==
  \E items \in TillSales, cust \in TillCustomers : CreateSale(items, cust)

DeleteOrder(user, order_id) ==
  /\ \E r \in {delete_order(DB, backend, user, order_id, NoFault)} :
        /\ Finish(r)
        /\ last' = Resp("delete_order", r.code, order_id)
  /\ UNCHANGED <<backend, cur, conc, mig, boot, pool>>

\* purchase orders created, received and deleted
NextDel ==
  \/ \E user \in Users, items \in OrderItems : CreateOrder(user, items)
  \/ \E user \in Users, order_id \in 1..MaxOrders, batch \in LedgerBatches :
       ReceiveOrder(user, order_id, batch)
  \/ \E user \in Users, order_id \in 1..MaxOrders : DeleteOrder(user, order_id)

SpecDel == Init /\ [][NextDel]_vars

\* the item lines and status an update_order request can carry
UpdLines == [sku : {"A"}, quantity : {1, MaxQty}, received_qty : {0, 1, MaxQty + 1}]
UpdItems == {<<>>} \cup {<<l>> : l \in UpdLines}
UpdStatuses == {KeepStatus, "draft", "received"}

UpdateOrder(user, order_id, status, items) ==
  /\ Len(purchase_order_items) + Len(items) <= MaxItemRows
  /\ clock < MaxClock
  /\ \E r \in {update_order(DB, backend, user, order_id, status, items, clock, NoFault)} :
        /\ Finish(r)
        /\ last' = [Resp("update_order", r.code, order_id) EXCEPT !.nlines = Len(items)]
  /\ UNCHANGED <<backend, cur, conc, mig, boot, pool>>

\* purchase orders created, edited, received and deleted
NextOrders ==
  \/ \E user \in LedgerUsers, items \in LedgerOrders : CreateOrder(user, items)
  \/ \E user \in LedgerUsers, order_id \in 1..MaxOrders, status \in UpdStatuses,
        items \in UpdItems : UpdateOrder(user, order_id, status, items)
  \/ \E user \in LedgerUsers, order_id \in 1..MaxOrders, batch \in LedgerBatches :
       ReceiveOrder(user, order_id, batch)
  \/ \E user \in LedgerUsers, order_id \in 1..MaxOrders : DeleteOrder(user, order_id)

SpecOrders == Init /\ [][NextOrders]_vars

DeleteProduct(sku) ==
  /\ \E r \in {delete_product(DB, backend, sku, NoFault)} :
        /\ Finish(r)
        /\ last' = Resp("delete_product", r.code, 0)
  /\ UNCHANGED <<backend, cur, conc, mig, boot, pool>>

\* the runtime operations that touch products, sales and orders
NextRuntime ==
  \/ \E items \in LedgerSales, cust \in SaleCustomers \ {NoCustomer} :
       CreateSale(items, cust)
  \/ \E user \in LedgerUsers, receipt \in 1..MaxSales : VoidSale(user, receipt, "damaged")
  \/ \E user \in LedgerUsers, items \in LedgerOrders : CreateOrder(user, items)
  \/ \E user \in LedgerUsers, order_id \in 1..MaxOrders, batch \in LedgerBatches :
       ReceiveOrder(user, order_id, batch)
  \/ \E sku \in {"A", UnknownSku}, q \in EditQtys : UpdateProduct(sku, q)
  \/ \E sku \in Products \cup {UnknownSku} : DeleteProduct(sku)

SpecRuntime == Init /\ [][NextRuntime]_vars

\* the databases a process can find at its start: one or two products whose
\* SKUs and barcodes are of the old or the new form, rows of the four tables
\* that refer to the first product, a currency setting, and the seeded tables
\* empty or filled. With the unique index in place no two barcodes are equal.
LegacyRows == [sku : OldSkus \cup {"200001"}, barcode : {"", "7", "100001"}, supplier : {"Acme "}]
LegacyInventories ==
  {inv \in SeqsUpTo(LegacyRows, MaxProducts) : Len(inv) >= 1 /\ Distinct(inv, "sku")}

LegacyDB(inv, indexed, refs, currency, seeded) ==
  [inventory |-> inv,
   sale_items |-> IF refs THEN << [sku |-> inv[1].sku] >> ELSE <<>>,
   inventory_log |-> IF refs THEN << [sku |-> inv[1].sku] >> ELSE <<>>,
   purchases |-> IF refs THEN << [sku |-> inv[1].sku] >> ELSE <<>>,
   purchase_order_items |-> IF refs THEN << [sku |-> inv[1].sku] >> ELSE <<>>,
   sales |-> IF refs THEN << [customer_phone |-> " 555 "] >> ELSE <<>>,
   currency_symbol |-> currency,
   suppliers |-> IF seeded THEN << "Acme" >> ELSE <<>>,
   customers |-> IF seeded THEN << "555" >> ELSE <<>>,
   barcode_index |-> indexed]

LegacyDBs ==
  {LegacyDB(inv, indexed, refs, currency, seeded) :
     inv \in LegacyInventories, indexed \in BOOLEAN, refs \in BOOLEAN,
     currency \in {NoValue, "Rs", "₹"}, seeded \in BOOLEAN}

\* the process starts: init_db runs on the database it finds
Startup(bdraws, sdraws) ==
  /\ boot.runs < MaxRuns
  /\ \E r \in {init_db(boot.db, backend, bdraws, sdraws, boot.superuser)} :
       boot' = [boot EXCEPT !.db = r.db, !.before = boot.db, !.runs = @ + 1,
                            !.completed = r.completed]
  /\ UNCHANGED <<backend, cur, conc, mig, pool, tables, clock, last>>

InitBoot ==
  /\ Installed
  /\ mig = NoMig
  /\ pool = NoPool
  /\ boot \in {[NoBoot EXCEPT !.db = l, !.before = l, !.superuser = su] :
                 l \in {x \in LegacyDBs : x.barcode_index => Distinct(x.inventory, "barcode")},
                 su \in BOOLEAN}

NextBoot ==
  \E bdraws \in Draws(BarcodePool), sdraws \in Draws(SkuPool) : Startup(bdraws, sdraws)

SpecBoot == InitBoot /\ [][NextBoot]_vars

\* ------------------------------------------------------------ add_product
\* the SKUs a caller posts: none, a six-digit one, one of the NLF- form
PostedSkus == {"", "200002", "NLF-2"}
PostedProducts == [sku : PostedSkus, barcode : {"", "100001"}, name : {"", "mug"}]

\* POST /api/inventory on database l: the name is required; a missing SKU is
\* generated from the category and four hex digits of a uuid; a SKU in use is
\* answered 409; a missing barcode is drawn; the INSERT raises on a barcode
\* the unique index holds already
add_product(l, product, hex_sku, bdraws) ==
  LET sku == IF product.sku = "" THEN hex_sku ELSE product.sku
      barcode == IF strip(product.barcode) = ""
                 THEN _gen_random_barcode(existing_barcodes(l.inventory), bdraws)
                 ELSE product.barcode
  IN IF strip(product.name) = "" THEN [db |-> l, code |-> 400]
     ELSE IF sku \in used_skus(l.inventory) THEN [db |-> l, code |-> 409]
     ELSE IF l.barcode_index /\ barcode \in existing_barcodes(l.inventory)
       THEN [db |-> l, code |-> 500]
     ELSE [db |-> [l EXCEPT !.inventory =
                     Append(@, [sku |-> sku, barcode |-> barcode, supplier |-> ""])],
           code |-> 201]

\* a request once the process has started
AddProduct(product, hex_sku, bdraws) ==
  /\ boot.runs >= 1
  /\ Len(boot.db.inventory) < MaxProducts + MaxAdded
  /\ \E r \in {add_product(boot.db, product, hex_sku, bdraws)} :
       /\ boot' = [boot EXCEPT !.db = r.db, !.before = boot.db]
       /\ last' = Resp("add_product", r.code, 0)
  /\ UNCHANGED <<backend, cur, conc, mig, pool, tables, clock>>

\* create_sale of one unit of a product: its sale_items row and its log row
SellProduct(i) ==
  /\ boot.runs >= 1
  /\ i \in 1..Len(boot.db.inventory)
  /\ Len(boot.db.sale_items) < MaxSold + 1
  /\ boot' = [boot EXCEPT !.db.sale_items = Append(@, [sku |-> boot.db.inventory[i].sku]),
                          !.db.inventory_log = Append(@, [sku |-> boot.db.inventory[i].sku]),
                          !.before = boot.db]
  /\ last' = Resp("create_sale", 201, 0)
  /\ UNCHANGED <<backend, cur, conc, mig, pool, tables, clock>>

\* a process that finds an indexed database, starts, serves product and sale
\* requests and is started again
InitRekey ==
  /\ Installed
  /\ mig = NoMig
  /\ pool = NoPool
  /\ boot \in {[NoBoot EXCEPT !.db = l, !.before = l] :
                 l \in {x \in LegacyDBs : /\ x.barcode_index
                                          /\ Distinct(x.inventory, "barcode")
                                          /\ x.currency_symbol = "₹"
                                          /\ Len(x.suppliers) > 0}}

NextRekey ==
  \/ \E bdraws \in Draws(BarcodePool), sdraws \in Draws(SkuPool) : Startup(bdraws, sdraws)
  \/ \E product \in PostedProducts, hex_sku \in NewProductSkus,
        bdraws \in Draws(BarcodePool) : AddProduct(product, hex_sku, bdraws)
  \/ \E i \in 1..(MaxProducts + MaxAdded) : SellProduct(i)

SpecRekey == InitRekey /\ [][NextRekey]_vars

\* the application module is imported: init_db() and migrate_from_json() run in
\* the importing thread, each through get_db(), and return
ImportApp ==
  /\ ~pool.started
  /\ pool' = [get_db(pool, "main") EXCEPT !.started = TRUE]
  /\ UNCHANGED <<backend, cur, conc, mig, boot, tables, clock, last>>

\* a request is handed to a thread: the importing thread only under a server
\* that serves in it, a request worker otherwise
BeginRequest(thread) ==
  /\ pool.started /\ pool.pc[thread] = "idle"
  /\ thread = "main" => pool.main_serves
  /\ pool' = [pool EXCEPT !.pc[thread] = "handling", !.got[thread] = 0]
  /\ UNCHANGED <<backend, cur, conc, mig, boot, tables, clock, last>>

\* the handler calls db()
Acquire(thread) ==
  /\ pool.pc[thread] = "handling"
  /\ pool.slot[_local(thread)] = 0 => Len(pool.conns) < MaxConns
  /\ pool' = get_db(pool, thread)
  /\ UNCHANGED <<backend, cur, conc, mig, boot, tables, clock, last>>

\* the unit of work ends, by a normal return, a business error or an
\* unexpected fault: teardown_db runs close_db()
Outcomes == {"ok", "business_error", "fault"}

EndRequest(thread, outcome, close_raises) ==
  /\ pool.pc[thread] = "handling"
  /\ pool' = [pool_close_db(pool, thread, close_raises) EXCEPT
                !.pc[thread] = "idle", !.outcome = outcome]
  /\ UNCHANGED <<backend, cur, conc, mig, boot, tables, clock, last>>

InitPool ==
  /\ Installed
  /\ mig = NoMig
  /\ boot = NoBoot
  /\ pool \in {[NoPool EXCEPT !.main_serves = b] : b \in BOOLEAN}

NextPool ==
  \/ ImportApp
  \/ \E thread \in Threads : BeginRequest(thread)
  \/ \E thread \in Threads : Acquire(thread)
  \/ \E thread \in Threads, outcome \in Outcomes, close_raises \in BOOLEAN :
       EndRequest(thread, outcome, close_raises)

SpecPool == InitPool /\ [][NextPool]_vars

\* every unit of work that has begun ends: the handler returns or raises and
\* the application context is torn down
SpecPoolLive ==
  /\ SpecPool
  /\ \A thread \in Threads :
       WF_vars(\E outcome \in Outcomes, close_raises \in BOOLEAN :
                 EndRequest(thread, outcome, close_raises))

\* one INSERT through the connection; an INSERT OR IGNORE can only be skipped
\* when the table holds a row
ExecuteInsert(table, skipped) ==
  /\ cur.rows[table] < MaxRows
  /\ skipped => cur.rows[table] >= 1
  /\ cur' = execute_insert(cur, backend, table, skipped)
  /\ UNCHANGED <<backend, conc, mig, boot, pool, tables, clock, last>>

NextCursor ==
  \E table \in InsertTables, skipped \in BOOLEAN : ExecuteInsert(table, skipped)

SpecCursor == Init /\ [][NextCursor]_vars

\* a sale rung up before either worker has taken its request
SaleBefore(items) ==
  /\ \A w \in Workers : conc.pc[w] = "idle"
  /\ CreateSale(items, NoCustomer)

\* void_sale up to its last SELECT: the role check, the sale row and its
\* status, the item rows; nothing is written or locked
VoidRead(w, user, receipt) ==
  /\ conc.pc[w] = "idle"
  /\ \E code \in {void_sale_reads(DB, user, receipt)} :
       /\ conc' = [conc EXCEPT
             !.pc[w] = IF code = 0 THEN "read" ELSE "done",
             !.code[w] = code,
             !.op[w] = "void_sale",
             !.arg[w] = receipt,
             !.items[w] = IF code = 0
                          THEN ItemsOfSale(DB, DB.sales[CHOOSE k \in SaleByReceipt(DB, receipt) :
                                                          TRUE].id)
                          ELSE <<>>,
             !.start = IF \A v \in Workers : conc.pc[v] = "idle" THEN DB ELSE @]
       /\ last' = IF code = 0 THEN last
                  ELSE [Resp("void_sale", code, receipt) EXCEPT !.role = user.role]
  /\ UNCHANGED <<backend, cur, mig, boot, pool, tables, clock>>

\* the rest of void_sale: the updates made from the rows read, and the commit
VoidWrite(w, user) ==
  /\ conc.pc[w] = "read" /\ conc.op[w] = "void_sale"
  /\ \E r \in {void_sale_writes(DB, backend, user,
                                 DB.sales[CHOOSE k \in SaleByReceipt(DB, conc.arg[w]) : TRUE].id,
                                 conc.items[w], conc.arg[w], "damaged", clock, NoFault)} :
        /\ Finish(r)
        /\ conc' = [conc EXCEPT !.pc[w] = "done", !.code[w] = r.code]
        /\ last' = [Resp("void_sale", r.code, conc.arg[w]) EXCEPT !.role = user.role]
  /\ UNCHANGED <<backend, cur, mig, boot, pool>>

\* two void calls side by side, after the sales of the day
NextVoidConc ==
  \/ \E items \in TillSales : SaleBefore(items)
  \/ \E w \in Workers, user \in LedgerUsers, receipt \in 1..MaxSales : VoidRead(w, user, receipt)
  \/ \E w \in Workers, user \in {u \in LedgerUsers : u.role = "admin"} : VoidWrite(w, user)

SpecVoidConc == Init /\ [][NextVoidConc]_vars

\* the database as a handler works on it when its SELECT of the product rows
\* ran earlier: those rows as they were read, every other table as it is now
stale_read(d, seen) == [d EXCEPT !.inventory = seen]

\* UPDATE inventory SET quantity = ? WHERE sku = ? with a value computed from
\* the row read earlier: the rows the handler updated take its values, the
\* others keep what is committed
write_back(d, seen, worked) ==
  [worked EXCEPT !.inventory =
     [s \in DOMAIN d.inventory |->
        IF worked.inventory[s] # seen[s] THEN worked.inventory[s] ELSE d.inventory[s]]]

\* receive_order up to its SELECT of the product row. A call that is refused,
\* or that raises, ends here. One receive runs at a time.
ReceiveRead(w, user, order_id, batch) ==
  /\ \A v \in Workers : conc.pc[v] # "read"
  /\ conc.pc[w] = "idle"
  /\ \E r \in {receive_order(DB, backend, user, order_id, batch, "", clock, NoFault)} :
       IF r.code = 200
       THEN /\ conc' = [conc EXCEPT !.pc[w] = "read", !.op[w] = "receive_order",
                                    !.arg[w] = order_id, !.items[w] = batch,
                                    !.seen[w] = inventory]
            /\ UNCHANGED <<tables, clock, last>>
       ELSE /\ Finish(r)
            /\ conc' = [conc EXCEPT !.pc[w] = "done", !.op[w] = "receive_order",
                                    !.arg[w] = order_id, !.items[w] = batch,
                                    !.code[w] = r.code]
            /\ last' = [Resp("receive_order", r.code, order_id) EXCEPT !.nlines = Len(batch)]
  /\ UNCHANGED <<backend, cur, mig, boot, pool>>

\* the rest of receive_order: new_qty = old_qty + recv_qty from the row read,
\* the UPDATE that stores it, the log rows and the commit
ReceiveWrite(w, user) ==
  /\ conc.pc[w] = "read" /\ conc.op[w] = "receive_order"
  /\ \E r \in {receive_order(stale_read(DB, conc.seen[w]), backend, user, conc.arg[w],
                              conc.items[w], "", clock, NoFault)} :
        /\ Finish([r EXCEPT !.tx.db = write_back(DB, conc.seen[w], r.tx.db)])
        /\ conc' = [conc EXCEPT !.pc[w] = "done", !.code[w] = r.code]
        /\ last' = [Resp("receive_order", r.code, conc.arg[w]) EXCEPT
                      !.nlines = Len(conc.items[w])]
  /\ UNCHANGED <<backend, cur, mig, boot, pool>>

\* receiving against the till: sales and voids commit while a receive runs
NextReceiveConc ==
  \/ \E items \in LedgerSales : CreateSale(items, NoCustomer)
  \/ \E user \in LedgerUsers, receipt \in 1..MaxSales : VoidSale(user, receipt, "damaged")
  \/ \E user \in LedgerUsers, items \in LedgerOrders : CreateOrder(user, items)
  \/ \E w \in Workers, user \in LedgerUsers, order_id \in 1..MaxOrders,
        batch \in LedgerBatches : ReceiveRead(w, user, order_id, batch)
  \/ \E w \in Workers, user \in {u \in LedgerUsers : u.role = "admin"} : ReceiveWrite(w, user)

SpecReceiveConc == Init /\ [][NextReceiveConc]_vars

SpecCust == Init /\ [][NextCust]_vars

SpecConc == Init /\ [][NextConc]_vars

\* ------------------------------------------------------------ migration
\* the exporting databases: the first np products, the first ns sales, and
\* with or without a user, a setting, a supplier, a customer and an order
SourceProducts ==
  << [sku |-> "A", name |-> "a", barcode |-> "111111", quantity |-> 1],
     [sku |-> "B", name |-> "b", barcode |-> "222222", quantity |-> 2],
     [sku |-> "C", name |-> "c", barcode |-> "333333", quantity |-> 3] >>

SourceSales ==
  << [id |-> 1, receipt_number |-> "R1", status |-> "Complete"],
     [id |-> 2, receipt_number |-> "R2", status |-> "Voided"],
     [id |-> 3, receipt_number |-> "R3", status |-> "Complete"] >>

SourceSaleItems ==
  << [sale_id |-> 1, sku |-> "A", quantity |-> 1],
     [sale_id |-> 2, sku |-> "A", quantity |-> 1],
     [sale_id |-> 2, sku |-> "B", quantity |-> 2],
     [sale_id |-> 3, sku |-> "C", quantity |-> 1] >>

FirstN(seq, n) == SubSeq(seq, 1, Min(n, Len(seq)))

SourceDB(np, ns, extras) ==
  [users |-> IF extras THEN << [id |-> "u1", username |-> "ann", name |-> "Ann"] >>
             ELSE <<>>,
   settings |-> IF extras THEN [k \in {"store_name"} |-> "local"] ELSE NoSettings,
   inventory |-> FirstN(SourceProducts, np),
   suppliers |-> IF extras THEN << [id |-> 1, name |-> "s1", phone |-> "111"] >> ELSE <<>>,
   customers |-> IF extras THEN << [id |-> 1, phone |-> "555", name |-> "Ann"] >> ELSE <<>>,
   sales |-> FirstN(SourceSales, ns),
   sale_items |-> SelectSeq(SourceSaleItems, LAMBDA it : it.sale_id <= ns),
   purchase_orders |->
     IF extras THEN << [id |-> 1, order_number |-> "PO1", supplier_id |-> 1,
                        status |-> "draft"] >>
     ELSE <<>>,
   purchase_order_items |->
     IF extras THEN << [order_id |-> 1, sku |-> "A", quantity |-> 2] >> ELSE <<>>]

MaxSnapSales == 2    \* sales of the exporting database

SourceDBs ==
  {SourceDB(np, ns, extras) : np \in 1..MaxProducts, ns \in 0..MaxSnapSales,
                              extras \in BOOLEAN}

\* an importing database that already holds a row under every key of the snapshot
SeededDB ==
  [users |-> << [id |-> "u1", username |-> "ann", name |-> "Old"] >>,
   settings |-> [k \in {"store_name"} |-> "cloud"],
   inventory |-> << [sku |-> "A", name |-> "old", barcode |-> "999999", quantity |-> 9] >>,
   suppliers |-> << [id |-> 1, name |-> "s1", phone |-> "000"] >>,
   customers |-> << [id |-> 1, phone |-> "555", name |-> "Old"] >>,
   sales |-> << [id |-> 1, receipt_number |-> "R1", status |-> "Voided"] >>,
   sale_items |-> <<>>,
   purchase_orders |-> << [id |-> 1, order_number |-> "PO1", supplier_id |-> 1,
                           status |-> "received"] >>,
   purchase_order_items |-> <<>>]

CloudDBs == {FreshDB, SeededDB}

\* a snapshot to which a sale with a non-numeric item quantity was added
Tampered(data) ==
  [data EXCEPT !.sales = Append(@,
     [id |-> 9, receipt_number |-> "R9", status |-> "Complete",
      items |-> << [sale_id |-> 9, sku |-> "A"] >>])]

\* GET /api/data/export on the exporting instance
Export ==
  /\ mig.step = "none"
  /\ mig' = [mig EXCEPT !.data = export_all_data(mig.local), !.step = "exported"]
  /\ UNCHANGED <<backend, cur, conc, boot, pool, tables, clock, last>>

\* POST /api/data/import on the importing instance
api_import_data(sent, crash) ==
  /\ mig.step # "none"
  /\ \E im \in {import_all_data(mig.cloud, backend, sent, crash)} :
       mig' = [mig EXCEPT !.cloud = im.db, !.imported = im.imported,
                          !.before = mig.cloud, !.sent = sent, !.crash = crash,
                          !.step = "imported"]
  /\ UNCHANGED <<backend, cur, conc, boot, pool, tables, clock, last>>

Import(tamper, crash) ==
  api_import_data(IF tamper THEN Tampered(mig.data) ELSE mig.data, crash)

\* a snapshot in which the name of the last product was replaced by null
NullNamed(data) ==
  [data EXCEPT !.inventory[Len(data.inventory)].name = NullName]

\* POST /api/data/import of a snapshot with a null product name
ImportNullNamed(crash) ==
  api_import_data(NullNamed(mig.data), crash)

InitImport ==
  /\ Installed
  /\ boot = NoBoot
  /\ pool = NoPool
  /\ mig \in {[NoMig EXCEPT !.local = l, !.cloud = c] : l \in SourceDBs, c \in CloudDBs}

NextImport ==
  \/ Export
  \/ \E tamper \in BOOLEAN, crash \in 0..NGroups : Import(tamper, crash)

SpecImport == InitImport /\ [][NextImport]_vars

\* snapshots as exported and snapshots with a null product name
NextImportRows ==
  \/ Export
  \/ \E crash \in 0..NGroups : Import(FALSE, crash)
  \/ \E crash \in 0..NGroups : ImportNullNamed(crash)

SpecImportRows == InitImport /\ [][NextImportRows]_vars

\* ------------------------------------------------------------ properties
\* the sum of the quantities of a sale's lines that name a SKU
RECURSIVE SoldQty(_, _, _, _)
SoldQty(rows, sale_id, sku, i) ==
  IF i > Len(rows) THEN 0
  ELSE (IF rows[i].sale_id = sale_id /\ rows[i].sku = sku THEN rows[i].quantity ELSE 0)
       + SoldQty(rows, sale_id, sku, i + 1)

\* C2: a create-sale with a failing line (unknown SKU, or quantity above the
\* quantity-on-hand) is rejected with an insufficient-stock error that lists
\* every failing line, and changes no row of inventory, sales, sale_items,
\* inventory_log or customers
C2_RejectedSaleWritesNothing ==
  [][(last'.op = "create_sale" /\ last'.nfail > 0)
       => /\ last'.code = 400
          /\ last'.nerr = last'.nfail
          /\ UNCHANGED <<inventory, sales, sale_items, inventory_log, customers>>]_vars

\* a sale was refused although one of its lines was not failing
C2_Witness ==
  /\ last.op = "create_sale" /\ last.code = 400
  /\ last.nfail >= 1 /\ last.nfail < last.nlines

\* C3: a successful void of a Complete sale adds to each product exactly the
\* sum of the sale's line quantities for its SKU (no ceiling), and leaves every
\* product the sale does not name unchanged
C3_VoidAddsBackExactly ==
  [][(last'.op = "void_sale" /\ last'.code = 200)
       => /\ sales[last'.id].status = "Complete"
          /\ DOMAIN inventory' = DOMAIN inventory
          /\ \A s \in DOMAIN inventory :
               inventory'[s] = inventory[s] + SoldQty(sale_items, last'.id, s, 1)]_vars

\* a sale naming A twice and not B was voided
C3_Witness ==
  /\ last.op = "void_sale" /\ last.code = 200
  /\ Cardinality({i \in 1..Len(sale_items) :
                    sale_items[i].sale_id = last.id /\ sale_items[i].sku = "A"}) = 2
  /\ SoldQty(sale_items, last.id, "B", 1) = 0

\* C4: a void of an already Voided sale is rejected; it changes no product
\* quantity, appends no inventory-log entry and leaves the void metadata as the
\* first void recorded it
C4_SecondVoidRejected ==
  [][(/\ last'.op = "void_sale"
      /\ last'.id \in 1..Len(sales)
      /\ sales[last'.id].status = "Voided")
       => /\ last'.code \in {400, 403}
          /\ UNCHANGED <<inventory, inventory_log, sales>>]_vars

\* a privileged caller voided a sale that was already voided by someone else
C4_Witness ==
  /\ last.op = "void_sale" /\ last.code = 400
  /\ sales[last.id].status = "Voided"
  /\ sales[last.id].voided_by = "bob"

\* C5: voiding an accepted sale immediately after it was created returns every
\* product's quantity to its value before the sale
C5_VoidUndoesSale ==
  (last.op = "void_sale" /\ last.code = 200 /\ last.imm) => inventory = last.pre

C7_StatusReflectsAllLines ==
  (last.op = "receive_order" /\ last.code = 200)
    => LET complete == \A k \in 1..Len(purchase_order_items) :
                         purchase_order_items[k].order_id = last.id =>
                           purchase_order_items[k].received_qty
                             = purchase_order_items[k].quantity
       IN purchase_orders[last.id].status = (IF complete THEN "received" ELSE "partial")

\* C8: a sale is created Complete, its status is Complete or Voided, and once
\* it is Voided no operation of the ledger sets it back
C8_VoidedIsTerminal ==
  [][/\ Len(sales') >= Len(sales)
     /\ \A k \in 1..Len(sales') :
          /\ k > Len(sales) => sales'[k].status = "Complete"
          /\ k <= Len(sales) =>
               /\ sales'[k].status \in {"Complete", "Voided"}
               /\ sales[k].status = "Voided" => sales'[k].status = "Voided"]_vars

\* a sale was voided and the ledger went on: stock was received afterwards
C8_Witness ==
  /\ \E k \in 1..Len(sales) : sales[k].status = "Voided"
  /\ last.op = "receive_order" /\ last.code = 200
  /\ \E k \in 1..Len(inventory_log) : inventory_log[k].action = "Qty Adjusted"

\* C10: an unexpected error part-way through create-sale, void-sale or
\* receive-purchase-order leaves the database, once the unit of work has ended,
\* exactly as it was before the call
C10_FaultLeavesNothingDurable ==
  [][(last'.code = 500 /\ last'.op \in {"create_sale", "void_sale", "receive_order"})
       => UNCHANGED tables]_vars

\* a receive failed after some of its statements had run
C10_Witness ==
  /\ last.op = "receive_order" /\ last.code = 500 /\ last.dirty

\* the two calls run one after the other, first then second, from database d
SerialRun(d, be, first, second) ==
  LET r1 == create_sale(d, be, first, NoCustomer, NoFault)
      d1 == teardown_db(d, r1)
      r2 == create_sale(d1, be, second, NoCustomer, NoFault)
  IN [first |-> r1.code, second |-> r2.code, inventory |-> teardown_db(d1, r2).inventory]

\* C9: when two create-sale calls on one SKU have both been answered, their
\* outcomes and the final quantities are those of running the two calls one
\* after the other in some order
C9_ConcurrentSalesSerializable ==
  (\A w \in Workers : conc.pc[w] = "done") =>
    \E a, b \in Workers :
      /\ a # b
      /\ LET s == SerialRun(conc.start, backend, conc.items[a], conc.items[b])
         IN /\ conc.code[a] = s.first
            /\ conc.code[b] = s.second
            /\ inventory = s.inventory

\* C11: a create-sale request with a line whose quantity is zero or negative is
\* rejected and no table changes
C11_OutOfRangeQuantityRejected ==
  [][(last'.op = "create_sale" /\ last'.oor > 0)
       => (last'.code = 400 /\ UNCHANGED tables)]_vars

\* the two results answer alike and leave the same committed database behind
SameOutcome(d, rs, rp) ==
  /\ rs.code = rp.code
  /\ rs.details = rp.details
  /\ teardown_db(d, rs) = teardown_db(d, rp)

\* C12: from the same database and the same request, create-sale, void-sale
\* and receive-purchase-order give the same outcome, rows and keys on the
\* embedded backend as on the client-server backend
C12_BackendsAgree ==
  /\ \A items \in LedgerSales :
       SameOutcome(DB, create_sale(DB, "sqlite", items, NoCustomer, NoFault),
                       create_sale(DB, "postgres", items, NoCustomer, NoFault))
  /\ \A user \in LedgerUsers, receipt \in 1..MaxSales :
       SameOutcome(DB, void_sale(DB, "sqlite", user, receipt, "damaged", clock, NoFault),
                       void_sale(DB, "postgres", user, receipt, "damaged", clock, NoFault))
  /\ \A user \in LedgerUsers, order_id \in 1..MaxOrders, batch \in LedgerBatches :
       SameOutcome(DB, receive_order(DB, "sqlite", user, order_id, batch, "", clock, NoFault),
                       receive_order(DB, "postgres", user, order_id, batch, "", clock, NoFault))

\* C13: an export imported into a fresh database leaves as many products,
\* sales (each with its line items), suppliers and customers as the source has,
\* for a source with more than one product
SameItems(a, b) ==
  /\ Len(a) = Len(b)
  /\ \A j \in 1..Len(a) : a[j].sku = b[j].sku /\ a[j].quantity = b[j].quantity

C13_ExportImportKeepsCounts ==
  (/\ mig.step = "imported" /\ mig.crash = 0
   /\ mig.before = FreshDB
   /\ mig.sent = export_all_data(mig.local)
   /\ Len(mig.local.inventory) > 1)
  => /\ Len(mig.cloud.inventory) = Len(mig.local.inventory)
     /\ Len(mig.cloud.suppliers) = Len(mig.local.suppliers)
     /\ Len(mig.cloud.customers) = Len(mig.local.customers)
     /\ Len(mig.cloud.sales) = Len(mig.local.sales)
     /\ \A i \in 1..Len(mig.local.sales) :
          \E k \in 1..Len(mig.cloud.sales) :
            /\ mig.cloud.sales[k].receipt_number = mig.local.sales[i].receipt_number
            /\ SameItems(
                 SelectSeq(mig.cloud.sale_items,
                           LAMBDA it : it.sale_id = mig.cloud.sales[k].id),
                 SelectSeq(mig.local.sale_items,
                           LAMBDA it : it.sale_id = mig.local.sales[i].id))

\* every row the importing database held is still there under its key
Preserved(before, d) ==
  /\ DOMAIN before.settings \subseteq DOMAIN d.settings
  /\ Len(d.users) >= Len(before.users)
  /\ \A k \in 1..Len(before.users) : d.users[k].id = before.users[k].id
  /\ Len(d.inventory) >= Len(before.inventory)
  /\ \A k \in 1..Len(before.inventory) : d.inventory[k].sku = before.inventory[k].sku
  /\ Len(d.suppliers) >= Len(before.suppliers)
  /\ \A k \in 1..Len(before.suppliers) : d.suppliers[k].name = before.suppliers[k].name
  /\ Len(d.customers) >= Len(before.customers)
  /\ \A k \in 1..Len(before.customers) : d.customers[k].phone = before.customers[k].phone
  /\ Len(d.sales) >= Len(before.sales)
  /\ \A k \in 1..Len(before.sales) :
       d.sales[k].receipt_number = before.sales[k].receipt_number
  /\ Len(d.purchase_orders) >= Len(before.purchase_orders)
  /\ \A k \in 1..Len(before.purchase_orders) :
       d.purchase_orders[k].order_number = before.purchase_orders[k].order_number
  /\ Len(d.sale_items) >= Len(before.sale_items)
  /\ Len(d.purchase_order_items) >= Len(before.purchase_order_items)

\* the rows of group g of the snapshot are in the database under their keys
\* (a product: unless a row with the default barcode stands in its way)
GroupPresent(g, data, d) ==
  IF g = 1 THEN \A i \in 1..Len(data.users) : \E k \in 1..Len(d.users) :
                   d.users[k].id = data.users[i].id
  ELSE IF g = 2 THEN DOMAIN data.settings \subseteq DOMAIN d.settings
  ELSE IF g = 3 THEN \A i \in 1..Len(data.inventory) : \E k \in 1..Len(d.inventory) :
                   \/ d.inventory[k].sku = data.inventory[i].sku
                   \/ d.inventory[k].barcode = DefaultBarcode
  ELSE IF g = 4 THEN \A i \in 1..Len(data.suppliers) : \E k \in 1..Len(d.suppliers) :
                   d.suppliers[k].name = data.suppliers[i].name
  ELSE IF g = 5 THEN \A i \in 1..Len(data.customers) : \E k \in 1..Len(d.customers) :
                   d.customers[k].phone = data.customers[i].phone
  ELSE IF g = 6 THEN \A i \in 1..Len(data.sales) :
                   WellFormed(data.sales[i].items) =>
                     \E k \in 1..Len(d.sales) :
                       d.sales[k].receipt_number = data.sales[i].receipt_number
  ELSE TRUE

\* C14: an import cut short in a later group, or given a malformed later sale,
\* keeps every row the database held and every group it had committed before
C14_ImportKeepsCommittedGroups ==
  mig.step = "imported" =>
    /\ Preserved(mig.before, mig.cloud)
    /\ \A g \in 1..NGroups :
         (mig.crash = 0 \/ g < mig.crash) => GroupPresent(g, mig.sent, mig.cloud)

\* an import into a fresh database was given a malformed sale after a good one
\* and failed in the purchase-order group; customers and the good sale are in
C14_Witness ==
  /\ mig.step = "imported" /\ mig.crash = NGroups /\ mig.before = FreshDB
  /\ \E i \in 1..Len(mig.sent.sales) : ~WellFormed(mig.sent.sales[i].items)
  /\ Len(mig.sent.sales) > 1
  /\ Len(mig.cloud.sales) > 0
  /\ Len(mig.cloud.customers) > 0

\* C15: import never overwrites: a row of the importing database whose key is
\* in the snapshot keeps all of its values, in every entity group
C15_ImportNeverOverwrites ==
  mig.step = "imported" =>
    /\ \A k \in DOMAIN mig.before.settings :
         k \in DOMAIN mig.cloud.settings /\ mig.cloud.settings[k] = mig.before.settings[k]
    /\ SubSeq(mig.cloud.users, 1, Len(mig.before.users)) = mig.before.users
    /\ SubSeq(mig.cloud.inventory, 1, Len(mig.before.inventory)) = mig.before.inventory
    /\ SubSeq(mig.cloud.suppliers, 1, Len(mig.before.suppliers)) = mig.before.suppliers
    /\ SubSeq(mig.cloud.customers, 1, Len(mig.before.customers)) = mig.before.customers
    /\ SubSeq(mig.cloud.sales, 1, Len(mig.before.sales)) = mig.before.sales
    /\ SubSeq(mig.cloud.purchase_orders, 1, Len(mig.before.purchase_orders))
         = mig.before.purchase_orders

\* the sum of the quantity deltas the log rows from index i on record for sku
RECURSIVE LogDelta(_, _, _)
LogDelta(log, sku, i) ==
  IF i > Len(log) THEN 0
  ELSE (IF log[i].sku = sku THEN log[i].qty_change ELSE 0) + LogDelta(log, sku, i + 1)

\* C16: every committed change of a product's quantity comes with log rows for
\* that SKU, written by the same call, whose deltas add up to the change
C16_LogDeltaEqualsChange ==
  [][\A sku \in Products :
       inventory'[sku] - inventory[sku]
         = LogDelta(inventory_log', sku, Len(inventory_log) + 1)]_vars

\* C17: when the write of an inventory-log row fails during create-sale,
\* void-sale or receive-purchase-order, the failure is skipped and the call's
\* primary effect is committed: the sale is recorded, the sale is voided, the
\* order lines are received
C17_LogFailureSkipped ==
  [][last'.logfail =>
       /\ last'.code # 500
       /\ last'.op = "create_sale" => Len(sales') = Len(sales) + 1
       /\ last'.op = "void_sale" => sales'[last'.id].status = "Voided"
       /\ last'.op = "receive_order" => purchase_order_items' # purchase_order_items]_vars

\* C18: after any sequence of sales there is one customer row per phone; a sale
\* never changes a name or email that was not blank, fills a blank one from the
\* sale, creates the customer when the phone is new, and a sale without a phone
\* or a rejected sale leaves the customers alone
C18_SaleKeepsCustomerIdentity ==
  [][last'.op = "create_sale" =>
       /\ \A j, k \in 1..Len(customers') :
            customers'[j].phone = customers'[k].phone => j = k
       /\ Len(customers') >= Len(customers)
       /\ \A k \in 1..Len(customers) :
            /\ customers'[k].phone = customers[k].phone
            /\ customers[k].name # "" => customers'[k].name = customers[k].name
            /\ customers[k].email # "" => customers'[k].email = customers[k].email
       /\ last'.code # 201 => customers' = customers
       /\ last'.code = 201 =>
            \E sale \in {sales'[Len(sales')]} :
              IF strip(sale.customer_phone) = "" THEN customers' = customers
              ELSE \E k \in 1..Len(customers') :
                     /\ customers'[k].phone = strip(sale.customer_phone)
                     /\ (k > Len(customers) \/ customers[k].name = "")
                          => customers'[k].name = strip(sale.customer_name)
                     /\ (k > Len(customers) \/ customers[k].email = "")
                          => customers'[k].email = strip(sale.customer_email)
                     /\ Len(customers') = IF k > Len(customers) THEN Len(customers) + 1
                                          ELSE Len(customers)]_vars

\* a second sale on Ann's phone, typed with blanks around it, gave another name
\* and an email: the name is still Ann and the blank email is filled
C18_Witness ==
  /\ last.op = "create_sale" /\ last.code = 201 /\ Len(sales) = 2
  /\ Len(customers) = 1
  /\ customers[1].name = "Ann" /\ customers[1].email = "ann@example.com"
  /\ sales[1].customer_email = ""
  /\ sales[2].customer_phone = " 555 " /\ sales[2].customer_name = "Bob"

\* C19: a receive call on a purchase order whose status is already 'received'
\* is rejected and changes nothing: no received_qty, product quantity, log
\* row, purchase-history row or order field
C19_ReceivedOrderRejectsReceive ==
  [][(/\ last'.op = "receive_order"
      /\ last'.id \in 1..Len(purchase_orders)
      /\ purchase_orders[last'.id].status = "received")
       => last'.code \in {400, 403} /\ UNCHANGED tables]_vars

\* an administrator's receive with a line for an ordered product was answered
\* 400 on an order that is fully received
C19_Witness ==
  /\ last.op = "receive_order" /\ last.code = 400 /\ last.nlines > 0
  /\ purchase_orders[last.id].status = "received"
  /\ \E k \in 1..Len(purchase_order_items) :
       purchase_order_items[k].received_qty = purchase_order_items[k].quantity

\* C20: a delete call on a purchase order whose status is 'received' is
\* rejected, and the order row and all of its item rows stay in the database
\* unchanged
C20_ReceivedOrderRejectsDelete ==
  [][(/\ last'.op = "delete_order"
      /\ OrderExists(DB, last'.id)
      /\ purchase_orders[last'.id].status = "received")
       => /\ last'.code \in {400, 403}
          /\ purchase_orders' = purchase_orders
          /\ purchase_order_items' = purchase_order_items]_vars

\* an administrator's delete was answered 400 on a received order, which still
\* has its item rows
C20_Witness ==
  /\ last.op = "delete_order" /\ last.code = 400
  /\ OrderExists(DB, last.id)
  /\ purchase_orders[last.id].status = "received"
  /\ \E k \in 1..Len(purchase_order_items) : purchase_order_items[k].order_id = last.id

\* C21: after any sequence of purchase-order create, update, receive and
\* delete operations every purchase-order item has
\* 0 <= received_qty <= ordered quantity
C21_ReceivedWithinOrdered ==
  \A k \in 1..Len(purchase_order_items) :
    purchase_order_items[k] # NoOrderItem =>
      /\ 0 <= purchase_order_items[k].received_qty
      /\ purchase_order_items[k].received_qty <= purchase_order_items[k].quantity

\* C22: a void call by a caller whose role is neither admin nor manager is
\* answered forbidden, whether or not the receipt exists, and changes no sale,
\* product quantity or log entry
C22_UnprivilegedVoidForbidden ==
  [][(last'.op = "void_sale" /\ last'.role \notin {"admin", "manager"})
       => last'.code = 403 /\ UNCHANGED tables]_vars

\* a staff member's void of an existing, complete sale was answered 403
C22_Witness ==
  /\ last.op = "void_sale" /\ last.role = "staff" /\ last.code = 403
  /\ last.id \in 1..Len(sales)
  /\ sales[last.id].status = "Complete"
  /\ \E k \in 1..Len(sale_items) : sale_items[k].sale_id = last.id /\ sale_items[k].sku \in Products

\* the header fields of a sale row other than its status and void metadata
SaleHeader(sale) ==
  [id |-> sale.id, receipt_number |-> sale.receipt_number,
   customer_name |-> sale.customer_name, customer_phone |-> sale.customer_phone,
   customer_email |-> sale.customer_email]

\* C23: under sales, voids, receives, product edits and product deletions an
\* existing sale's header fields other than status and void metadata, and all
\* of its sale-item rows, never change and are never deleted
C23_SalesImmutable ==
  [][/\ Len(sales') >= Len(sales)
     /\ \A k \in 1..Len(sales) : SaleHeader(sales'[k]) = SaleHeader(sales[k])
     /\ Len(sale_items') >= Len(sale_items)
     /\ \A k \in 1..Len(sale_items) : sale_items'[k] = sale_items[k]]_vars

\* a sale with a customer and an item row was voided, and a product was
\* deleted afterwards
C23_Witness ==
  /\ last.op = "delete_product" /\ last.code = 200
  /\ Len(sales) >= 1 /\ sales[1].status = "Voided" /\ sales[1].customer_phone # ""
  /\ \E k \in 1..Len(sale_items) : sale_items[k].sale_id = 1

\* C24: the inventory log is append-only: no step, at runtime or during the
\* startup migration, updates or deletes a log row once it is inserted
C24_LogAppendOnly ==
  [][/\ Len(inventory_log') >= Len(inventory_log)
     /\ \A k \in 1..Len(inventory_log) : inventory_log'[k] = inventory_log[k]
     /\ Len(boot'.db.inventory_log) >= Len(boot.db.inventory_log)
     /\ \A k \in 1..Len(boot.db.inventory_log) :
          boot'.db.inventory_log[k] = boot.db.inventory_log[k]]_vars

\* C28: a second run of the startup migration on a database the first run has
\* processed changes no row and no schema object, on either backend
C28_MigrationIdempotent ==
  [][boot.runs >= 1 => boot'.db = boot.db]_vars

\* the second run followed a first run that generated a barcode, re-keyed a
\* product with rows referring to it and seeded the suppliers
C28_Witness ==
  /\ boot.runs = 2 /\ boot.completed
  /\ \E i \in 1..Len(boot.db.inventory) : boot.db.inventory[i].sku \in SkuPool
  /\ \E i \in 1..Len(boot.db.inventory) : boot.db.inventory[i].barcode \in BarcodePool \ {"100001"}
  /\ Len(boot.db.inventory_log) > 0
  /\ boot.db.suppliers # <<>> /\ boot.db.barcode_index

\* every row of a referencing table names a product of the inventory table
RefsResolve(l) ==
  \A rows \in {l.sale_items, l.inventory_log, l.purchases, l.purchase_order_items} :
    \A k \in 1..Len(rows) : Refers(l.inventory, rows[k].sku)

\* C29: after the SKU re-keying migration every row of sale items, inventory
\* log, purchase history and purchase-order items that referred to a re-keyed
\* product refers to its new SKU; no row points at an SKU that no longer exists
C29_RekeyCascades ==
  (boot.runs >= 1 /\ boot.completed) => RefsResolve(boot.db)

\* C30: after the startup migration, for any prior contents, every product has
\* a non-empty barcode, no two products share a barcode and no two share an SKU
C30_BarcodesAndSkusUnique ==
  (boot.runs >= 1 /\ boot.completed) =>
    /\ \A i \in 1..Len(boot.db.inventory) : boot.db.inventory[i].barcode # ""
    /\ Distinct(boot.db.inventory, "barcode")
    /\ Distinct(boot.db.inventory, "sku")

\* C25: a successful void appends exactly one 'Void Refund' log entry for each
\* SKU the sale names and none for any other, carrying the receipt number and
\* the reason, with a delta equal to the quantity restored to that SKU
C25_OneRefundEntryPerSku ==
  [][(last'.op = "void_sale" /\ last'.code = 200) =>
       \A s \in Products :
         \E new \in {{k \in (Len(inventory_log) + 1)..Len(inventory_log') :
                        inventory_log'[k].sku = s}} :
           IF SoldQty(sale_items, last'.id, s, 1) = 0 THEN new = {}
           ELSE \E k \in new :
                  /\ new = {k}
                  /\ inventory_log'[k].action = "Void Refund"
                  /\ inventory_log'[k].new_value = sales[last'.id].receipt_number
                  /\ sales'[last'.id].void_reason # ""
                       => inventory_log'[k].note = sales'[last'.id].void_reason
                  /\ inventory_log'[k].qty_change = inventory'[s] - inventory[s]]_vars

\* the connections a thread opened that are still open
OpenOf(p, thread) ==
  {c \in 1..Len(p.conns) : p.conns[c].owner = thread /\ p.conns[c].state = "open"}

\* C26: for any interleaving of acquire and release by any number of workers,
\* each worker has at most one open connection at a time, and acquire returns
\* the worker's own connection, opening one only if the worker has none, never
\* a connection opened by another worker
C26_OwnConnectionOnly ==
  [][/\ \A t \in Threads :
          /\ Cardinality(OpenOf(pool', t)) <= 1
          /\ pool'.got[t] # 0 => pool'.conns[pool'.got[t]].owner = t
          /\ (pool'.got[t] # 0 /\ pool'.got[t] # pool.got[t])
               => pool'.conns[pool'.got[t]].state = "open"
     /\ Len(pool'.conns) > Len(pool.conns)
          => OpenOf(pool, pool'.conns[Len(pool'.conns)].owner) = {}]_vars

\* two request workers hold a connection each at the same time, and one of
\* them has been given its connection by a second acquire
C26_Witness ==
  /\ pool.got["w1"] # 0 /\ pool.got["w2"] # 0 /\ pool.got["w1"] # pool.got["w2"]
  /\ pool.pc["w1"] = "handling" /\ pool.pc["w2"] = "handling"
  /\ OpenOf(pool, "w1") # {} /\ OpenOf(pool, "w2") # {}
  /\ \E c \in 1..Len(pool.conns) : pool.conns[c].owner = "w1" /\ pool.conns[c].state # "open"

\* connection c has been opened and neither closed nor abandoned
IsOpen(c) == c <= Len(pool.conns) /\ pool.conns[c].state = "open"

\* C27: every connection a worker opens is eventually released, the one opened
\* for schema initialisation at process start included
C27_ConnectionsReleased ==
  \A c \in 1..MaxConns : IsOpen(c) ~> ~IsOpen(c)

\* C31: a run of the currency normalisation, on either backend, leaves a stored
\* rupee sign as it is and, when the setting is absent, inserts the default
C31_CurrencyNormalised ==
  [][boot'.runs = boot.runs + 1 =>
       /\ boot.db.currency_symbol = "₹" => boot'.db.currency_symbol = "₹"
       /\ boot.db.currency_symbol = NoValue => boot'.db.currency_symbol = "₹"]_vars

\* C32: on both backends the cursor of an insert reports a last-inserted id
\* exactly when the target has a backend-generated key and a row was inserted
C32_LastRowIdOnlyForSerial ==
  cur.table # "none" =>
    (cur.lastrowid # NoRowId <=> (cur.table \in _SERIAL_TABLES /\ cur.inserted))

\* C33: on PostgreSQL a statement that fails inside a transaction undoes only
\* itself: the rows inserted earlier in the same uncommitted import group are
\* kept and the group's commit makes them durable
C33_FailedStatementKeepsEarlierRows ==
  (/\ mig.step = "imported" /\ mig.crash = 0 /\ backend = "postgres"
   /\ mig.before = FreshDB)
  => \A i \in 1..Len(mig.sent.inventory) :
       (/\ mig.sent.inventory[i].name # NullName
        /\ \A j \in 1..(i - 1) : mig.sent.inventory[j].name = NullName)
       => \E k \in 1..Len(mig.cloud.inventory) :
            mig.cloud.inventory[k].sku = mig.sent.inventory[i].sku

\* C37: for each entity group the count an import returns is the number of
\* rows of that entity the import added and that are present when it ends
C37_ImportCountsRowsAdded ==
  (mig.step = "imported" /\ mig.crash = 0) =>
    /\ mig.imported.users = Len(mig.cloud.users) - Len(mig.before.users)
    /\ mig.imported.inventory = Len(mig.cloud.inventory) - Len(mig.before.inventory)
    /\ mig.imported.suppliers = Len(mig.cloud.suppliers) - Len(mig.before.suppliers)
    /\ mig.imported.customers = Len(mig.cloud.customers) - Len(mig.before.customers)
    /\ mig.imported.sales = Len(mig.cloud.sales) - Len(mig.before.sales)
    /\ mig.imported.purchase_orders =
         Len(mig.cloud.purchase_orders) - Len(mig.before.purchase_orders)

\* C34: an accepted create-sale asked, for every SKU, for at most the
\* quantity-on-hand in total over its lines, and the units it records as sold
\* for a SKU do not exceed the amount by which the product's quantity decreases
C34_SoldWithinStock ==
  [][(last'.op = "create_sale" /\ last'.code = 201) =>
       \A s \in Products :
         /\ SoldQty(sale_items', last'.id, s, 1) <= inventory[s]
         /\ SoldQty(sale_items', last'.id, s, 1) <= inventory[s] - inventory'[s]]_vars

\* C35: when two concurrent void calls on the same Complete receipt have both
\* been answered, at most one has succeeded and each product's quantity has
\* risen by the sale's line quantities once
C35_ConcurrentVoidRestoresOnce ==
  (/\ \A w \in Workers : conc.pc[w] = "done" /\ conc.op[w] = "void_sale"
   /\ \A v, w \in Workers : conc.arg[v] = conc.arg[w]
   /\ \E w \in Workers : conc.code[w] = 200)
  => /\ Cardinality({w \in Workers : conc.code[w] = 200}) = 1
     /\ \A s \in Products :
          inventory[s] = conc.start.inventory[s]
                         + SoldQty(sale_items,
                                   sales[CHOOSE k \in SaleByReceipt(DB, conc.arg["w1"]) : TRUE].id,
                                   s, 1)

\* units of a SKU on the purchases rows: what receive_order has taken in
RECURSIVE ReceivedQty(_, _, _)
ReceivedQty(rows, sku, i) ==
  IF i > Len(rows) THEN 0
  ELSE (IF rows[i].sku = sku THEN rows[i].quantity ELSE 0) + ReceivedQty(rows, sku, i + 1)

\* units of a SKU on the item rows of sales that are not voided
RECURSIVE UnvoidedQty(_, _, _)
UnvoidedQty(d, sku, i) ==
  IF i > Len(d.sale_items) THEN 0
  ELSE (IF /\ d.sale_items[i].sku = sku
           /\ \E k \in 1..Len(d.sales) : /\ d.sales[k].id = d.sale_items[i].sale_id
                                         /\ d.sales[k].status # "Voided"
        THEN d.sale_items[i].quantity ELSE 0)
       + UnvoidedQty(d, sku, i + 1)

\* C36: with sales and voids running beside a receive-order, once no receive is
\* under way each product's quantity is its initial quantity plus the units
\* received minus the units sold and not voided
C36_ReceiveLosesNoUpdate ==
  (\A w \in Workers : conc.pc[w] # "read") =>
    \A s \in Products :
      inventory[s] = InitQty + ReceivedQty(purchases, s, 1) - UnvoidedQty(DB, s, 1)

\* the item rows of one purchase order, in rowid order
ItemsOfOrder(rows, order_id) ==
  SelectSeq(rows, LAMBDA it : it # NoOrderItem /\ it.order_id = order_id)

\* C38: 'received' is terminal: a purchase order whose status is 'received'
\* keeps that status and its item rows through every update, receive and
\* delete, and is never deleted
C38_ReceivedIsTerminal ==
  [][\A o \in 1..Len(purchase_orders) :
       (OrderExists(DB, o) /\ purchase_orders[o].status = "received")
         => /\ purchase_orders'[o] # NoOrder
            /\ purchase_orders'[o].status = "received"
            /\ ItemsOfOrder(purchase_order_items', o)
                 = ItemsOfOrder(purchase_order_items, o)]_vars

\* no inventory row has a SKU of the form the startup migration re-keys
NoOldSkus(l) == \A i \in 1..Len(l.inventory) : ~IsOldSku(l.inventory[i].sku)

\* C39: once a process start has left no SKU of the legacy form, no runtime
\* operation creates a product with such a SKU, and a later start changes no
\* SKU that a sale item or a log entry refers to
C39_RekeyingIsOneTime ==
  [][(boot.runs >= 1 /\ NoOldSkus(boot.db))
       => /\ NoOldSkus(boot'.db)
          /\ boot'.runs = boot.runs + 1
               => /\ \A k \in 1..Len(boot.db.sale_items) :
                       boot'.db.sale_items[k].sku = boot.db.sale_items[k].sku
                  /\ \A k \in 1..Len(boot.db.inventory_log) :
                       boot'.db.inventory_log[k].sku = boot.db.inventory_log[k].sku]_vars

====
